---- MODULE Spec2Model ----
(***************************************************************************)
(* Model of release.py (jthreaddump): the release pipeline of main() with  *)
(* the backup / restore / cleanup operations of VersionBumper, over a      *)
(* small file system (the four declared files and .release-backup).        *)
(*                                                                         *)
(* Texts are modelled at the granularity the code inspects them:           *)
(*  - a version text is a sequence of dot-separated components, each a     *)
(*    sequence of decimal digits ("0.3.1" is <<<<0>>, <<3>>, <<1>>>>);     *)
(*  - pom.xml, Main.java and README.md are sequences of tokens, a token    *)
(*    being the declared version pattern around a version text, or other   *)
(*    text;                                                                *)
(*  - CHANGELOG.md is a sequence of newline-terminated lines.              *)
(***************************************************************************)
EXTENDS Integers, Sequences, FiniteSets, TLC

\* ------------------------------------------------------------------ bounds

\* Number of operator interrupts (Ctrl-C) delivered in one run.
MaxInterrupts == 2

\* validate_changelog: minimum length of the stripped [Unreleased] entry.
MinEntryLen == 20

\* ------------------------------------------------------- version texts

\* The characters of a version text: the decimal digits 0..9 and, numbered
\* after them, a minus sign, a plus sign, a space and a letter. (int() also
\* accepts underscores between digits and other whitespace; the texts here
\* do not have them.)
Minus == 10
Plus == 11
Space == 12
Letter == 13

\* A non-empty text of decimal digits.
IsDigits(ds) == ds # <<>> /\ \A i \in 1..Len(ds) : ds[i] \in 0..9

RECURSIVE IntOf(_)
\* The decimal value of a digit sequence (leading zeros allowed).
IntOf(ds) ==
    IF ds = <<>> THEN 0
    ELSE 10 * IntOf(SubSeq(ds, 1, Len(ds) - 1)) + ds[Len(ds)]

RECURSIVE StripLeft(_)
StripLeft(c) == IF c # <<>> /\ c[1] = Space THEN StripLeft(Tail(c)) ELSE c

RECURSIVE StripRight(_)
StripRight(c) ==
    IF c # <<>> /\ c[Len(c)] = Space THEN StripRight(SubSeq(c, 1, Len(c) - 1)) ELSE c

\* int(component) does not raise: surrounding whitespace is ignored, then an
\* optional sign and at least one digit.
IsIntText(c) ==
    LET t == StripRight(StripLeft(c))
    IN  IF t # <<>> /\ t[1] \in {Minus, Plus} THEN IsDigits(Tail(t)) ELSE IsDigits(t)

\* int(component), for a component that int() accepts.
IntValue(c) ==
    LET t == StripRight(StripLeft(c))
    IN  IF t[1] = Minus THEN 0 - IntOf(Tail(t))
        ELSE IF t[1] = Plus THEN IntOf(Tail(t))
        ELSE IntOf(t)

RECURSIVE StrOf(_)
\* str(n): a minus sign for n < 0, then the decimal digits without leading
\* zeros.
StrOf(n) ==
    IF n < 0 THEN <<Minus>> \o StrOf(0 - n)
    ELSE IF n < 10 THEN <<n>> ELSE Append(StrOf(n \div 10), n % 10)

\* The outcome "ValueError raised" of the functions below. No version text is
\* empty (''.split('.') has one part), and no parsed version is.
ValueError == <<>>

\* parse_version: split on '.', exactly three parts, int() of each part;
\* int() raises ValueError on a part that is not an integer text.
parse_version(version) ==
    IF Len(version) # 3 THEN ValueError
    ELSE IF \E i \in 1..3 : ~IsIntText(version[i]) THEN ValueError
    ELSE <<IntValue(version[1]), IntValue(version[2]), IntValue(version[3])>>

\* f"{a}.{b}.{c}"
FormatVersion(a, b, c) == <<StrOf(a), StrOf(b), StrOf(c)>>

\* A minor bump that keeps the patch number.
bump_minor_keeping_patch(version) ==
    LET p == parse_version(version)
    IN  IF p = ValueError THEN ValueError ELSE FormatVersion(p[1], p[2] + 1, p[3])

bump_minor(version) ==
    LET p == parse_version(version)
    IN  IF p = ValueError THEN ValueError ELSE FormatVersion(p[1], p[2] + 1, 0)

bump_major(version) ==
    LET p == parse_version(version)
    IN  IF p = ValueError THEN ValueError ELSE FormatVersion(p[1] + 1, 0, 0)

bump_patch(version) ==
    LET p == parse_version(version)
    IN  IF p = ValueError THEN ValueError ELSE FormatVersion(p[1], p[2], p[3] + 1)

\* A choice of the bump in which --patch is tested before --major.
BumpVersionPatchFirst(major, patch, version) ==
    IF patch THEN bump_patch(version)
    ELSE IF major THEN bump_major(version)
    ELSE bump_minor(version)

\* main(): --major wins, then --patch, otherwise a minor bump (args.minor is
\* never read).
BumpVersion(major, patch, version) ==
    IF major THEN bump_major(version)
    ELSE IF patch THEN bump_patch(version)
    ELSE bump_minor(version)

\* ------------------------------------------------------------- files

FileNames == {"pom.xml", "Main.java", "README.md", "CHANGELOG.md"}

\* A path that does not exist.
Missing == [exists |-> FALSE, data |-> <<>>]

File(data) == [exists |-> TRUE, data |-> data]

\* Tokens of pom.xml / Main.java / README.md.
VersionTok(v) == [k |-> "version", v |-> v]
TextTok == [k |-> "text", v |-> <<>>]

\* re.search(r'<version>([\d.]+)</version>', pom_content): the first match.
get_current_version(pom) ==
    IF \E i \in 1..Len(pom) : pom[i].k = "version"
    THEN LET first == CHOOSE i \in 1..Len(pom) :
                          /\ pom[i].k = "version"
                          /\ \A j \in 1..(i - 1) : pom[j].k # "version"
         IN  pom[first].v
    ELSE ValueError

\* str.replace without the count: what update_pom_xml would do without its
\* third argument.
ReplaceWithoutCount(content, old, new) ==
    [j \in 1..Len(content) |->
        IF content[j] = VersionTok(old) THEN VersionTok(new) ELSE content[j]]

\* str.replace(old, new, 1): the first occurrence only.
ReplaceFirst(content, old, new) ==
    [j \in 1..Len(content) |->
        IF /\ content[j] = VersionTok(old)
           /\ \A h \in 1..(j - 1) : content[h] # VersionTok(old)
        THEN VersionTok(new) ELSE content[j]]

\* str.replace(old, new): every occurrence.
ReplaceAll(content, old, new) ==
    [j \in 1..Len(content) |->
        IF content[j] = VersionTok(old) THEN VersionTok(new) ELSE content[j]]

\* ---------------------------------------------------------- CHANGELOG.md

\* A line of CHANGELOG.md: k is its kind, v the version it names, p the
\* previous version a link compares with, n a length or an index.
\*   unreleased  ## [Unreleased]
\*   release     ## [v] - YYYY-MM-DD
\*   sub         ### Added | Changed | Deprecated | Removed | Fixed | Security
\*   text        any other non-blank line, of n characters
\*   blank       an empty or whitespace-only line
\*   ulink       [Unreleased]: <base>/compare/v<p>...HEAD
\*   vlink       [v]: <base>/compare/v<p>...v<v>
Line(k, v, p, n) == [k |-> k, v |-> v, p |-> p, n |-> n]

Unreleased == Line("unreleased", <<>>, <<>>, 0)
Release(v) == Line("release", v, <<>>, 0)
Sub(n) == Line("sub", <<>>, <<>>, n)
Text(n) == Line("text", <<>>, <<>>, n)
Blank == Line("blank", <<>>, <<>>, 0)
ULink(p) == Line("ulink", <<>>, p, 0)
VLink(v, p) == Line("vlink", v, p, 0)

\* The lengths of "Added", "Changed", "Deprecated", "Removed", "Fixed", "Security".
SubNameLen == <<5, 7, 10, 7, 5, 8>>

RECURSIVE VersionLen(_)
\* len() of a version text: its digits and the dots between the components.
VersionLen(v) ==
    IF v = <<>> THEN 0
    ELSE IF Len(v) = 1 THEN Len(v[1])
    ELSE Len(v[1]) + 1 + VersionLen(Tail(v))

\* len() of a line, without its newline. The base URL of a link has at least
\* one character (the pattern captures it with .+); it is taken to have one.
LineLen(l) ==
    CASE l.k = "unreleased" -> 15
      [] l.k = "release"    -> 4 + VersionLen(l.v) + 4 + 10
      [] l.k = "sub"        -> 4 + SubNameLen[l.n]
      [] l.k = "text"       -> l.n
      [] l.k = "blank"      -> 0
      [] l.k = "ulink"      -> 14 + 1 + 10 + VersionLen(l.p) + 7
      [] l.k = "vlink"      -> 1 + VersionLen(l.v) + 3 + 1 + 10 + VersionLen(l.p) + 4 + VersionLen(l.v)

\* A line that begins with "## [".
IsSectionHeading(l) == l.k \in {"unreleased", "release"}

RECURSIVE TextLen(_)
\* len() of consecutive lines joined by newlines.
TextLen(lines) ==
    IF lines = <<>> THEN 0
    ELSE IF Len(lines) = 1 THEN LineLen(lines[1])
    ELSE LineLen(lines[1]) + 1 + TextLen(Tail(lines))

\* get_changelog_entry on the content of an existing CHANGELOG.md:
\*   re.search(r'## \[Unreleased\]\s*\n(.*?)(?=\n## \[|$)', content, re.DOTALL)
\* and strip() of group 1. After the first [Unreleased] heading, \s*\n consumes
\* every blank line, so the group starts at the first non-blank line, whatever
\* it is; it is extended lazily, to the first line end that is followed by a
\* line beginning with "## [" or that ends the text.
UnreleasedEntry(content) ==
    IF ~\E i \in 1..Len(content) : content[i].k = "unreleased" THEN <<>>
    ELSE
    LET head == CHOOSE i \in 1..Len(content) :
                    /\ content[i].k = "unreleased"
                    /\ \A h \in 1..(i - 1) : content[h].k # "unreleased"
        nonblank == {j \in (head + 1)..Len(content) : content[j].k # "blank"}
    IN  IF nonblank = {} THEN <<>>
        ELSE
        LET from == CHOOSE j \in nonblank : \A h \in nonblank : j <= h
            ends == {e \in from..Len(content) :
                        e = Len(content) \/ IsSectionHeading(content[e + 1])}
            to   == CHOOSE e \in ends : \A h \in ends : e <= h
            last == CHOOSE e \in from..to :
                        /\ content[e].k # "blank"
                        /\ \A h \in (e + 1)..to : content[h].k = "blank"
        IN  SubSeq(content, from, last)

\* get_changelog_entry: "" when CHANGELOG.md does not exist.
get_changelog_entry(changelog) ==
    IF ~changelog.exists THEN <<>> ELSE UnreleasedEntry(changelog.data)

\* validate_changelog: not (not entry or len(entry) < 20).
validate_changelog(changelog) ==
    LET entry == get_changelog_entry(changelog)
    IN  ~(entry = <<>> \/ TextLen(entry) < MinEntryLen)

\* The match of get_version_changelog_entry on the content of CHANGELOG.md:
\*   re.search(rf'## \[{version}\][^\n]*\n(.*?)(?=\n## \[|$)', content, re.DOTALL)
\* and strip() of group 1. The rest of the heading line is consumed, so the
\* group starts with the line below the heading, whatever it is, and is
\* extended lazily to the first line end that is followed by a line beginning
\* with "## [" or that ends the text.
VersionEntry(content, version) ==
    IF ~\E i \in 1..Len(content) : content[i] = Release(version) THEN <<>>
    ELSE
    LET head == CHOOSE i \in 1..Len(content) :
                    /\ content[i] = Release(version)
                    /\ \A h \in 1..(i - 1) : content[h] # Release(version)
    IN  IF head = Len(content) THEN <<>>
        ELSE
        LET ends == {e \in (head + 1)..Len(content) :
                        e = Len(content) \/ IsSectionHeading(content[e + 1])}
            to   == CHOOSE e \in ends : \A h \in ends : e <= h
            full == {j \in (head + 1)..to : content[j].k # "blank"}
        IN  IF full = {} THEN <<>>
            ELSE SubSeq(content,
                        CHOOSE j \in full : \A h \in full : j <= h,
                        CHOOSE j \in full : \A h \in full : h <= j)

RECURSIVE DropEmptyHeaders(_, _)
\* The loop of get_version_changelog_entry over the lines of the entry: a line
\* that starts with ### is held back as header (replacing one held back
\* before), a blank line is dropped, any other line is appended, after the
\* header held back if there is one.
DropEmptyHeaders(entry, header) ==
    IF entry = <<>> THEN <<>>
    ELSE IF Head(entry).k = "sub" THEN DropEmptyHeaders(Tail(entry), <<Head(entry)>>)
    ELSE IF Head(entry).k = "blank" THEN DropEmptyHeaders(Tail(entry), header)
    ELSE header \o <<Head(entry)>> \o DropEmptyHeaders(Tail(entry), <<>>)

\* get_version_changelog_entry: "" when CHANGELOG.md does not exist or has no
\* heading of the version.
get_version_changelog_entry(changelog, version) ==
    IF ~changelog.exists THEN <<>>
    ELSE DropEmptyHeaders(VersionEntry(changelog.data, version), <<>>)

\* version_section of update_changelog: the fresh pending section and the
\* heading of the released one.
VersionSection(version) ==
    <<Unreleased, Blank, Sub(1), Sub(2), Sub(3), Sub(4), Sub(5), Sub(6), Blank,
      Release(version)>>

\* An update that inserts version_section above the pending heading and keeps
\* that heading.
PromoteHeadingKept(content, version) ==
    IF ~\E i \in 1..Len(content) : content[i].k = "unreleased" THEN content
    ELSE
    LET head == CHOOSE i \in 1..Len(content) :
                    /\ content[i].k = "unreleased"
                    /\ \A h \in 1..(i - 1) : content[h].k # "unreleased"
    IN  SubSeq(content, 1, head - 1) \o VersionSection(version)
            \o SubSeq(content, head, Len(content))

\* re.sub(r'## \[Unreleased\]', version_section, content, count=1)
PromoteHeading(content, version) ==
    IF ~\E i \in 1..Len(content) : content[i].k = "unreleased" THEN content
    ELSE
    LET head == CHOOSE i \in 1..Len(content) :
                    /\ content[i].k = "unreleased"
                    /\ \A h \in 1..(i - 1) : content[h].k # "unreleased"
    IN  SubSeq(content, 1, head - 1) \o VersionSection(version)
            \o SubSeq(content, head + 1, Len(content))

RECURSIVE RewriteLinksInPlace(_, _, _)
\* A rewrite of the [Unreleased] link that adds no link for the new version.
RewriteLinksInPlace(content, version, old_version) ==
    IF content = <<>> THEN <<>>
    ELSE <<IF Head(content).k = "ulink" THEN ULink(version) ELSE Head(content)>>
         \o RewriteLinksInPlace(Tail(content), version, old_version)

RECURSIVE RewriteLinks(_, _, _)
\* re.sub(r'\[Unreleased\]: .+', new_links, content): every [Unreleased] link
\* line becomes the two lines of new_links.
RewriteLinks(content, version, old_version) ==
    IF content = <<>> THEN <<>>
    ELSE (IF Head(content).k = "ulink"
          THEN <<ULink(version), VLink(version, old_version)>>
          ELSE <<Head(content)>>)
         \o RewriteLinks(Tail(content), version, old_version)

\* update_changelog on the content of an existing CHANGELOG.md.
PromoteUnreleased(content, version) ==
    LET promoted == PromoteHeading(content, version)
    IN  IF \E i \in 1..Len(promoted) : promoted[i].k = "ulink"
        THEN LET first == CHOOSE i \in 1..Len(promoted) :
                              /\ promoted[i].k = "ulink"
                              /\ \A h \in 1..(i - 1) : promoted[h].k # "ulink"
             IN  RewriteLinks(promoted, version, promoted[first].p)
        ELSE promoted

\* update_changelog: skipped when CHANGELOG.md does not exist, else the
\* rewritten text is written back.
update_changelog(changelog, version) ==
    IF ~changelog.exists THEN changelog
    ELSE File(PromoteUnreleased(changelog.data, version))

\* update_pom_xml / update_main_java / update_readme on the content of an
\* existing file (reading a missing file raises FileNotFoundError).
update_pom_xml(pom, old_version, new_version) ==
    File(ReplaceFirst(pom.data, old_version, new_version))

update_main_java(java, old_version, new_version) ==
    File(ReplaceAll(java.data, old_version, new_version))

update_readme(readme, old_version, new_version) ==
    File(ReplaceAll(readme.data, old_version, new_version))

\* ------------------------------------------------------------- scenarios

V031 == <<<<0>>, <<3>>, <<1>>>>
V020 == <<<<0>>, <<2>>, <<0>>>>

\* pom.xml: a project version plus a dependency that has the same version;
\* one whose version has two components; one without a version; no pom.xml.
PomFiles ==
    { File(<<TextTok, VersionTok(V031), TextTok, VersionTok(V031)>>),
      File(<<VersionTok(<<<<0>>, <<3>>>>)>>),
      File(<<TextTok>>),
      Missing }

\* Main.java: the version of pom.xml; another version (the declared string
\* version = "0.3.1" is absent); no Main.java.
MainJavaFiles ==
    { File(<<TextTok, VersionTok(V031)>>),
      File(<<TextTok, VersionTok(V020)>>),
      Missing }

ReadmeFiles == { File(<<VersionTok(V031), TextTok, VersionTok(V031)>>), Missing }

\* CHANGELOG.md: a pending section with entries; an empty pending section
\* followed by a released section; an empty pending section at the end of the
\* document; a pending section with one short line; no CHANGELOG.md.
ChangelogFiles ==
    { File(<<Text(11), Blank, Unreleased, Blank, Sub(1), Text(24), Blank,
             Release(V031), Sub(1), Text(12), Blank, ULink(V031)>>),
      File(<<Text(11), Blank, Unreleased, Blank, Release(V031), Sub(1),
             Text(12), Blank, ULink(V031)>>),
      File(<<Text(11), Blank, Unreleased, Blank>>),
      File(<<Unreleased, Text(3), Blank, Release(V031), Text(12)>>),
      Missing }

\* .release-backup at start: absent, or left by an earlier failed run (which
\* restore_backups never removes) with the snapshots of that run.
StaleSnapshots ==
    [f \in FileNames |->
        IF f = "CHANGELOG.md" THEN File(<<Unreleased, Text(30)>>)
        ELSE File(<<VersionTok(V020)>>)]

BackupDirs ==
    { [exists |-> FALSE, snap |-> [f \in FileNames |-> Missing]],
      [exists |-> TRUE, snap |-> StaleSnapshots] }

\* The command line: every combination of the flags main() reads.
ArgSets ==
    [dry_run : BOOLEAN, skip_tests : BOOLEAN, no_deploy : BOOLEAN,
     no_push : BOOLEAN, no_github_release : BOOLEAN,
     major : BOOLEAN, minor : BOOLEAN, patch : BOOLEAN]

\* What input() returns: an answer, or EOFError at end of input.
Responses == {"y", "yes", "n", "", "EOF"}

\* ----------------------------------------------------------------- state

VARIABLES
    args,             \* the parsed command line
    files,            \* the declared files
    backup_dir,       \* .release-backup and the snapshots in it
    backups_created,  \* VersionBumper.backups_created
    pc,               \* the statement of main() to execute next
    handler,          \* where restore_backups was called from
    idx,              \* position in the file loop of create_backups / restore_backups
    current_version,
    new_version,
    do_deploy,
    executed,         \* the external commands run so far, with their success
    exit_code,        \* -1 while running
    outcome,          \* how the run ended
    interrupts,       \* history: the KeyboardInterrupts delivered, and where
    orig,             \* history: the declared files before the run
    orig_backup_dir,  \* history: .release-backup before the run
    prompts,          \* history: confirmation prompts shown
    wrote,            \* history: declared files written by update_*
    restored,         \* history: declared files written by restore_backups
    reported          \* history: messages printed

vars ==
    <<args, files, backup_dir, backups_created, pc, handler, idx,
      current_version, new_version, do_deploy, executed, exit_code, outcome,
      interrupts, orig, orig_backup_dir, prompts, wrote, restored, reported>>

\* files_to_backup, and the order of files_to_restore.
FilesToBackup == <<"pom.xml", "Main.java", "README.md", "CHANGELOG.md">>

Init ==
    /\ args \in ArgSets
    /\ \E pom \in PomFiles, java \in MainJavaFiles, readme \in ReadmeFiles,
          changelog \in ChangelogFiles :
          files = [f \in FileNames |->
                      CASE f = "pom.xml" -> pom
                        [] f = "Main.java" -> java
                        [] f = "README.md" -> readme
                        [] f = "CHANGELOG.md" -> changelog]
    /\ backup_dir \in BackupDirs
    /\ backups_created = FALSE
    /\ pc = "get_current_version"
    /\ handler = ""
    /\ idx = 0
    /\ current_version = <<>>
    /\ new_version = <<>>
    /\ do_deploy = ~args.no_deploy
    /\ executed = <<>>
    /\ exit_code = -1
    /\ outcome = ""
    /\ interrupts = <<>>
    /\ orig = files
    /\ orig_backup_dir = backup_dir
    /\ prompts = 0
    /\ wrote = {}
    /\ restored = {}
    /\ reported = {}

\* --------------------------------------------------------------- helpers

\* sys.exit(code), the end of main(), or an uncaught exception.
Exit(code, how) ==
    /\ pc' = "exit"
    /\ exit_code' = code
    /\ outcome' = how

Goto(label) ==
    /\ pc' = label
    /\ UNCHANGED <<exit_code, outcome>>

\* A call of restore_backups from run_command ("run_command") or from an
\* except clause of main() ("KeyboardInterrupt", "Exception").
CallRestore(from) ==
    /\ Goto("restore_backups")
    /\ handler' = from
    /\ idx' = 0

\* The statements inside the try block of main(); restore_backups called by
\* run_command runs inside it too.
TryLabels ==
    {"create_backups", "update_pom_xml", "update_main_java", "update_readme",
     "update_changelog", "run_tests", "build_package", "deploy_gate",
     "deploy_release", "git_add", "git_commit", "git_tag", "git_push",
     "git_push_tags", "gh_version", "gh_auth_status", "gh_release_create",
     "cleanup_backups"}

InTry == pc \in TryLabels \/ (pc = "restore_backups" /\ handler = "run_command")

\* The external actions that local restoration cannot undo.
IrreversibleCmds == {"deploy_release", "git_push", "git_push_tags", "gh_release_create"}

Succeeded(cmd) == \E i \in 1..Len(executed) : executed[i].cmd = cmd /\ executed[i].ok

Irreversible == \E c \in IrreversibleCmds : Succeeded(c)

\* The statement after a stage, by the flags.
AfterUpdate == IF args.skip_tests THEN "build_package" ELSE "run_tests"
AfterBuild == IF do_deploy THEN "deploy_gate" ELSE "git_add"
AfterPush == IF args.no_github_release THEN "cleanup_backups" ELSE "gh_version"
AfterTag == IF args.no_push THEN AfterPush ELSE "git_push"

\* A run_command that ignores the exit status (check=False).
run_command_unchecked(cmd, next) ==
    \E ok \in BOOLEAN :
        /\ executed' = Append(executed, [cmd |-> cmd, ok |-> ok])
        /\ Goto(next)
        /\ UNCHANGED <<args, files, backup_dir, backups_created, handler, idx,
                       current_version, new_version, do_deploy, interrupts, orig,
                       orig_backup_dir, prompts, wrote, restored, reported>>

\* run_command(cmd, description): the command runs and exits zero or not; on
\* a non-zero exit restore_backups is called, then sys.exit(1).
run_command(cmd, next) ==
    \E ok \in BOOLEAN :
        /\ executed' = Append(executed, [cmd |-> cmd, ok |-> ok])
        /\ IF ok
           THEN Goto(next) /\ UNCHANGED <<handler, idx, reported>>
           ELSE /\ CallRestore("run_command")
                /\ reported' = reported \cup {"failed"}
        /\ UNCHANGED <<args, files, backup_dir, backups_created, current_version,
                       new_version, do_deploy, interrupts, orig, orig_backup_dir, prompts, wrote,
                       restored>>

\* An exception other than KeyboardInterrupt raised inside the try block:
\* except Exception prints it, calls restore_backups and re-raises.
RaiseInTry ==
    /\ CallRestore("Exception")
    /\ reported' = reported \cup {"unexpected_error"}

\* ---------------------------------------------------------------- actions

\* main(): get_current_version and the bump; both raise outside the try block.
GetCurrentVersion ==
    /\ pc = "get_current_version"
    /\ LET cur == IF files["pom.xml"].exists
                  THEN get_current_version(files["pom.xml"].data)
                  ELSE ValueError
           new == IF cur = ValueError THEN ValueError
                  ELSE BumpVersion(args.major, args.patch, cur)
       IN  IF new = ValueError
           THEN Exit(1, "exception") /\ UNCHANGED <<current_version, new_version>>
           ELSE /\ Goto("validate_changelog")
                /\ current_version' = cur
                /\ new_version' = new
    /\ UNCHANGED <<args, files, backup_dir, backups_created, handler, idx,
                   do_deploy, executed, interrupts, orig, orig_backup_dir, prompts, wrote,
                   restored, reported>>

\* A main() that validates the changelog in a dry run too.
ValidateChangelogAlways ==
    /\ pc = "validate_changelog"
    /\ IF validate_changelog(files["CHANGELOG.md"])
       THEN Goto(IF args.dry_run THEN "dry_run" ELSE "confirm") /\ UNCHANGED reported
       ELSE Exit(1, "validation_failed") /\ reported' = reported \cup {"changelog_error"}
    /\ UNCHANGED <<args, files, backup_dir, backups_created, handler, idx,
                   current_version, new_version, do_deploy, executed, interrupts,
                   orig, orig_backup_dir, prompts, wrote, restored>>

\* main(): validate the changelog unless --dry-run.
ValidateChangelog ==
    /\ pc = "validate_changelog"
    /\ IF args.dry_run
       THEN Goto("dry_run") /\ UNCHANGED reported
       ELSE IF validate_changelog(files["CHANGELOG.md"])
       THEN Goto("confirm") /\ UNCHANGED reported
       ELSE Exit(1, "validation_failed") /\ reported' = reported \cup {"changelog_error"}
    /\ UNCHANGED <<args, files, backup_dir, backups_created, handler, idx,
                   current_version, new_version, do_deploy, executed, interrupts,
                   orig, orig_backup_dir, prompts, wrote, restored>>

\* main(): the dry run prints the diffs and the planned actions, and returns.
DryRun ==
    /\ pc = "dry_run"
    /\ Exit(0, "dry_run")
    /\ reported' = reported \cup {"dry_run_plan"}
    /\ UNCHANGED <<args, files, backup_dir, backups_created, handler, idx,
                   current_version, new_version, do_deploy, executed, interrupts,
                   orig, orig_backup_dir, prompts, wrote, restored>>

\* main(): input("Continue? [y/N] "), outside the try block.
Confirm ==
    /\ pc = "confirm"
    /\ prompts' = prompts + 1
    /\ \E response \in Responses :
        IF response = "EOF" THEN Exit(1, "exception") /\ UNCHANGED reported
        ELSE IF response \in {"y", "yes"} THEN Goto("create_backups") /\ UNCHANGED reported
        ELSE Exit(0, "aborted") /\ reported' = reported \cup {"aborted"}
    /\ UNCHANGED <<args, files, backup_dir, backups_created, handler, idx,
                   current_version, new_version, do_deploy, executed, interrupts,
                   orig, orig_backup_dir, wrote, restored>>

\* A create_backups that copies nothing.
CopyToBackupOmitted(dir, f) == dir

\* create_backups, the body of the loop: if file.exists(): shutil.copy2(file,
\* backup_dir / file.name).
CopyToBackup(dir, f) ==
    IF files[f].exists THEN [dir EXCEPT !.snap[f] = files[f]] ELSE dir

\* create_backups: mkdir(exist_ok=True), then copy each file that exists, then
\* set backups_created. One step per statement of the loop.
CreateBackups ==
    /\ pc = "create_backups"
    /\ IF idx = 0
       THEN /\ backup_dir' = [backup_dir EXCEPT !.exists = TRUE]
            /\ idx' = 1
            /\ Goto("create_backups")
            /\ UNCHANGED <<backups_created, reported>>
       ELSE IF idx <= Len(FilesToBackup)
       THEN /\ backup_dir' = CopyToBackup(backup_dir, FilesToBackup[idx])
            /\ idx' = idx + 1
            /\ Goto("create_backups")
            /\ UNCHANGED <<backups_created, reported>>
       ELSE /\ backups_created' = TRUE
            /\ idx' = 0
            /\ Goto("update_pom_xml")
            /\ reported' = reported \cup {"backups_created"}
            /\ UNCHANGED backup_dir
    /\ UNCHANGED <<args, files, handler, current_version, new_version, do_deploy,
                   executed, interrupts, orig, orig_backup_dir, prompts, wrote, restored>>

\* print(f"✓ Updated <file>: {old_version} -> {new_version}")
UpdatedMessage(f) ==
    CASE f = "pom.xml" -> "updated_pom_xml"
      [] f = "Main.java" -> "updated_main_java"
      [] f = "README.md" -> "updated_readme"

\* One of the update_* calls of main() on file f: read_text raises
\* FileNotFoundError when f does not exist, else the new text is written
\* (whether or not replace changed it) and the update is printed.
UpdateFile(f, text, next) ==
    /\ IF files[f].exists
       THEN /\ files' = [files EXCEPT ![f] = text]
            /\ wrote' = wrote \cup {f}
            /\ reported' = reported \cup {UpdatedMessage(f)}
            /\ Goto(next)
            /\ UNCHANGED <<handler, idx>>
       ELSE /\ RaiseInTry
            /\ UNCHANGED <<files, wrote>>
    /\ UNCHANGED <<args, backup_dir, backups_created, current_version, new_version,
                   do_deploy, executed, interrupts, orig, orig_backup_dir, prompts, restored>>

UpdatePomXml ==
    /\ pc = "update_pom_xml"
    /\ UpdateFile("pom.xml",
                  update_pom_xml(files["pom.xml"], current_version, new_version),
                  "update_main_java")

UpdateMainJava ==
    /\ pc = "update_main_java"
    /\ UpdateFile("Main.java",
                  update_main_java(files["Main.java"], current_version, new_version),
                  "update_readme")

UpdateReadme ==
    /\ pc = "update_readme"
    /\ UpdateFile("README.md",
                  update_readme(files["README.md"], current_version, new_version),
                  "update_changelog")

\* update_changelog returns without writing when CHANGELOG.md does not exist.
UpdateChangelog ==
    /\ pc = "update_changelog"
    /\ files' = [files EXCEPT !["CHANGELOG.md"] = update_changelog(@, new_version)]
    /\ wrote' = IF files["CHANGELOG.md"].exists THEN wrote \cup {"CHANGELOG.md"} ELSE wrote
    /\ Goto(AfterUpdate)
    /\ UNCHANGED <<args, backup_dir, backups_created, handler, idx, current_version,
                   new_version, do_deploy, executed, interrupts, orig, orig_backup_dir, prompts,
                   restored, reported>>

RunTests == pc = "run_tests" /\ run_command("run_tests", "build_package")

BuildPackage == pc = "build_package" /\ run_command("build_package", AfterBuild)

\* main(): input("Ready to deploy? [y/N] "), inside the try block.
DeployGate ==
    /\ pc = "deploy_gate"
    /\ prompts' = prompts + 1
    /\ \E response \in Responses :
        IF response = "EOF"
        THEN RaiseInTry /\ UNCHANGED do_deploy
        ELSE IF response \in {"y", "yes"}
        THEN Goto("deploy_release") /\ UNCHANGED <<do_deploy, handler, idx, reported>>
        ELSE /\ Goto("git_add")
             /\ do_deploy' = FALSE
             /\ reported' = reported \cup {"deploy_skipped"}
             /\ UNCHANGED <<handler, idx>>
    /\ UNCHANGED <<args, files, backup_dir, backups_created, current_version,
                   new_version, executed, interrupts, orig, orig_backup_dir, wrote, restored>>

\* A deploy_release that tolerates a failed deployment.
DeployReleaseUnchecked ==
    pc = "deploy_release" /\ run_command_unchecked("deploy_release", "git_add")

DeployRelease == pc = "deploy_release" /\ run_command("deploy_release", "git_add")

\* git_commit: git add, then git commit.
GitAdd == pc = "git_add" /\ run_command("git_add", "git_commit")

GitCommit == pc = "git_commit" /\ run_command("git_commit", "git_tag")

GitTag == pc = "git_tag" /\ run_command("git_tag", AfterTag)

\* git_push(push_tags=True): git push, then git push --tags.
GitPush == pc = "git_push" /\ run_command("git_push", "git_push_tags")

GitPushTags == pc = "git_push_tags" /\ run_command("git_push_tags", AfterPush)

\* A create_github_release that probes gh through run_command.
GhVersionFatal == pc = "gh_version" /\ run_command("gh_version", "gh_auth_status")

\* create_github_release: subprocess.run(['gh', '--version'], check=True);
\* CalledProcessError or FileNotFoundError prints a warning and returns.
GhVersion ==
    /\ pc = "gh_version"
    /\ \E ok \in BOOLEAN :
        /\ executed' = Append(executed, [cmd |-> "gh_version", ok |-> ok])
        /\ IF ok
           THEN Goto("gh_auth_status") /\ UNCHANGED reported
           ELSE Goto("cleanup_backups") /\ reported' = reported \cup {"gh_not_found"}
    /\ UNCHANGED <<args, files, backup_dir, backups_created, handler, idx,
                   current_version, new_version, do_deploy, interrupts, orig, orig_backup_dir,
                   prompts, wrote, restored>>

\* create_github_release: gh auth status; a non-zero exit prints a warning
\* and returns.
GhAuthStatus ==
    /\ pc = "gh_auth_status"
    /\ \E ok \in BOOLEAN :
        /\ executed' = Append(executed, [cmd |-> "gh_auth_status", ok |-> ok])
        /\ IF ok
           THEN Goto("gh_release_create") /\ UNCHANGED reported
           ELSE Goto("cleanup_backups") /\ reported' = reported \cup {"gh_not_authenticated"}
    /\ UNCHANGED <<args, files, backup_dir, backups_created, handler, idx,
                   current_version, new_version, do_deploy, interrupts, orig, orig_backup_dir,
                   prompts, wrote, restored>>

\* create_github_release: gh release create, with or without the jar, through
\* run_command; the notes file (not a declared file) is removed in any case.
GhReleaseCreate ==
    pc = "gh_release_create" /\ run_command("gh_release_create", "cleanup_backups")

\* restore_backups: return at once unless backups_created and the directory
\* exists; else copy each snapshot that exists over its original. Then the
\* caller goes on: run_command prints and calls sys.exit(1), the
\* KeyboardInterrupt clause calls sys.exit(1), the Exception clause re-raises.
AfterRestore ==
    CASE handler = "run_command" ->
            Exit(1, "step_failed") /\ reported' = reported \cup {"failed", "all_reverted"}
      [] handler = "KeyboardInterrupt" ->
            Exit(1, "interrupted") /\ UNCHANGED reported
      [] handler = "Exception" ->
            Exit(1, "exception") /\ UNCHANGED reported

\* A restore_backups that does not copy.
RestoreFileOmitted(fs, dir, f) == fs

\* restore_backups, the body of the loop: if backup_file.exists():
\* shutil.copy2(backup_file, original_file).
RestoreFile(fs, dir, f) ==
    IF dir.snap[f].exists THEN [fs EXCEPT ![f] = dir.snap[f]] ELSE fs

RECURSIVE RestoreFrom(_, _, _)
\* The loop of restore_backups over files_to_restore, from its i-th pair on.
RestoreFrom(fs, dir, i) ==
    IF i > Len(FilesToBackup) THEN fs
    ELSE RestoreFrom(RestoreFile(fs, dir, FilesToBackup[i]), dir, i + 1)

\* One whole call of restore_backups: the declared files after it.
restore_backups(fs, dir, created) ==
    IF ~created \/ ~dir.exists THEN fs ELSE RestoreFrom(fs, dir, 1)

RestoreBackups ==
    /\ pc = "restore_backups"
    /\ IF idx = 0
       THEN IF ~backups_created \/ ~backup_dir.exists
            THEN AfterRestore /\ UNCHANGED <<idx, files, restored>>
            ELSE /\ Goto("restore_backups")
                 /\ idx' = 1
                 /\ UNCHANGED <<files, restored, reported>>
       ELSE /\ files' = RestoreFile(files, backup_dir, FilesToBackup[idx])
            /\ restored' = IF backup_dir.snap[FilesToBackup[idx]].exists
                           THEN restored \cup {FilesToBackup[idx]}
                           ELSE restored
            /\ IF idx < Len(FilesToBackup)
               THEN /\ Goto("restore_backups")
                    /\ idx' = idx + 1
                    /\ UNCHANGED reported
               ELSE AfterRestore /\ UNCHANGED idx
    /\ UNCHANGED <<args, backup_dir, backups_created, handler, current_version,
                   new_version, do_deploy, executed, interrupts, orig, orig_backup_dir, prompts,
                   wrote>>

\* cleanup_backups: shutil.rmtree(backup_dir) when it exists, which removes
\* the entries one by one, in directory order, and then the directory.
CleanupBackups ==
    /\ pc = "cleanup_backups"
    /\ IF ~backup_dir.exists
       THEN Goto("summary") /\ UNCHANGED <<backup_dir, reported>>
       ELSE IF \E f \in FileNames : backup_dir.snap[f].exists
       THEN /\ \E f \in FileNames :
                /\ backup_dir.snap[f].exists
                /\ backup_dir' = [backup_dir EXCEPT !.snap[f] = Missing]
            /\ Goto("cleanup_backups")
            /\ UNCHANGED reported
       ELSE /\ backup_dir' = [backup_dir EXCEPT !.exists = FALSE]
            /\ Goto("summary")
            /\ reported' = reported \cup {"cleaned_up"}
    /\ UNCHANGED <<args, files, backups_created, handler, idx, current_version,
                   new_version, do_deploy, executed, interrupts, orig, orig_backup_dir, prompts,
                   wrote, restored>>

\* main(): the summary, printed from do_deploy, do_push and do_github_release.
Summary ==
    /\ pc = "summary"
    /\ Exit(0, "success")
    /\ reported' = reported \cup {"success"}
                     \cup {IF do_deploy THEN "deployed" ELSE "deployment_skipped"}
                     \cup {IF args.no_push THEN "push_skipped" ELSE "pushed"}
                     \cup {IF args.no_github_release THEN "github_release_skipped"
                           ELSE "github_release_created"}
    /\ UNCHANGED <<args, files, backup_dir, backups_created, handler, idx,
                   current_version, new_version, do_deploy, executed, interrupts,
                   orig, orig_backup_dir, prompts, wrote, restored>>

\* An interrupt handler that leaves the files alone once an irreversible
\* action has succeeded.
InterruptBoundaryAware ==
    /\ pc # "exit"
    /\ Len(interrupts) < MaxInterrupts
    /\ interrupts' = Append(interrupts,
                            [pc |-> pc, in_try |-> InTry, backed |-> backups_created,
                             irreversible |-> Irreversible, steps |-> Len(executed)])
    /\ IF pc = "gh_auth_status"
       THEN /\ Goto("cleanup_backups")
            /\ reported' = reported \cup {"gh_auth_unknown"}
            /\ UNCHANGED <<handler, idx>>
       ELSE IF InTry /\ ~Irreversible
       THEN /\ CallRestore("KeyboardInterrupt")
            /\ reported' = reported \cup {"interrupted"}
       ELSE IF InTry
       THEN /\ Exit(1, "interrupted")
            /\ reported' = reported \cup {"interrupted"}
            /\ UNCHANGED <<handler, idx>>
       ELSE /\ Exit(130, "uncaught_interrupt")
            /\ UNCHANGED <<handler, idx, reported>>
    /\ UNCHANGED <<args, files, backup_dir, backups_created, current_version,
                   new_version, do_deploy, executed, orig, orig_backup_dir, prompts,
                   wrote, restored>>

\* KeyboardInterrupt raised at the statement about to run. Inside the try
\* block the except KeyboardInterrupt clause calls restore_backups and
\* sys.exit(1), except under the bare except of the gh auth check, which prints
\* a warning and returns from create_github_release. Outside the try block
\* (and inside an except clause) nothing catches it.
Interrupt ==
    /\ pc # "exit"
    /\ Len(interrupts) < MaxInterrupts
    /\ interrupts' = Append(interrupts,
                            [pc |-> pc, in_try |-> InTry, backed |-> backups_created,
                             irreversible |-> Irreversible, steps |-> Len(executed)])
    /\ IF pc = "gh_auth_status"
       THEN /\ Goto("cleanup_backups")
            /\ reported' = reported \cup {"gh_auth_unknown"}
            /\ UNCHANGED <<handler, idx>>
       ELSE IF InTry
       THEN /\ CallRestore("KeyboardInterrupt")
            /\ reported' = reported \cup {"interrupted"}
       ELSE /\ Exit(130, "uncaught_interrupt")
            /\ UNCHANGED <<handler, idx, reported>>
    /\ UNCHANGED <<args, files, backup_dir, backups_created, current_version,
                   new_version, do_deploy, executed, orig, orig_backup_dir, prompts, wrote,
                   restored>>

Next ==
    \/ GetCurrentVersion
    \/ ValidateChangelog
    \/ DryRun
    \/ Confirm
    \/ CreateBackups
    \/ UpdatePomXml
    \/ UpdateMainJava
    \/ UpdateReadme
    \/ UpdateChangelog
    \/ RunTests
    \/ BuildPackage
    \/ DeployGate
    \/ DeployRelease
    \/ GitAdd
    \/ GitCommit
    \/ GitTag
    \/ GitPush
    \/ GitPushTags
    \/ GhVersion
    \/ GhAuthStatus
    \/ GhReleaseCreate
    \/ RestoreBackups
    \/ CleanupBackups
    \/ Summary
    \/ Interrupt

Spec == Init /\ [][Next]_vars

\* ------------------------------------------- the version functions alone

\* A version text has at most this many dot-separated components.
MaxComponents == 4

\* Components: decimal numbers with one and two digits, with a leading zero,
\* the empty text, signed numbers, a number after a space, and a letter.
VersionComponents ==
    { <<0>>, <<3>>, <<9>>, <<1, 9>>, <<0, 3>>, <<>>, <<Minus, 2>>, <<Plus, 1>>,
      <<Space, 4>>, <<Letter>> }

VersionTexts == UNION { [1..n -> VersionComponents] : n \in 1..MaxComponents }

\* No release run: the state of a VersionBumper that main() is not driving.
NoRun ==
    /\ args = [dry_run |-> FALSE, skip_tests |-> FALSE, no_deploy |-> FALSE,
               no_push |-> FALSE, no_github_release |-> FALSE,
               major |-> FALSE, minor |-> FALSE, patch |-> FALSE]
    /\ backup_dir = [exists |-> FALSE, snap |-> [f \in FileNames |-> Missing]]
    /\ backups_created = FALSE
    /\ handler = ""
    /\ idx = 0
    /\ do_deploy = FALSE
    /\ executed = <<>>
    /\ exit_code = -1
    /\ outcome = ""
    /\ interrupts = <<>>
    /\ orig_backup_dir = backup_dir
    /\ prompts = 0
    /\ wrote = {}
    /\ restored = {}
    /\ reported = {}

RunVars ==
    <<args, backup_dir, backups_created, handler, idx, do_deploy, executed,
      exit_code, outcome, interrupts, orig_backup_dir, prompts, wrote, restored,
      reported>>

\* A version text is given; parse_version and the bump_* methods are called
\* on it.
VersionInit ==
    /\ NoRun
    /\ files = [f \in FileNames |-> Missing]
    /\ orig = files
    /\ current_version \in VersionTexts
    /\ new_version = <<>>
    /\ pc = "parse_version"

\* parse_version(current_version): a triple is returned or ValueError raised.
ParseVersion ==
    /\ pc = "parse_version"
    /\ pc' = IF parse_version(current_version) = ValueError
             THEN "ValueError" ELSE "parsed"
    /\ UNCHANGED <<files, orig, current_version, new_version, RunVars>>

\* The f-string of the bump_* methods on the parsed triple as it is.
FormatParsed ==
    /\ pc = "parsed"
    /\ LET p == parse_version(current_version)
       IN  new_version' = FormatVersion(p[1], p[2], p[3])
    /\ pc' = "formatted"
    /\ UNCHANGED <<files, orig, current_version, RunVars>>

\* new_version = bump(current_version), or ValueError raised by it.
CallBump(bumped, label) ==
    /\ pc = "parse_version"
    /\ new_version' = bumped
    /\ pc' = IF bumped = ValueError THEN "ValueError" ELSE label
    /\ UNCHANGED <<files, orig, current_version, RunVars>>

BumpMinor == CallBump(bump_minor(current_version), "bump_minor")

BumpMajor == CallBump(bump_major(current_version), "bump_major")

BumpPatch == CallBump(bump_patch(current_version), "bump_patch")

VersionNext ==
    \/ ParseVersion
    \/ FormatParsed
    \/ BumpMinor
    \/ BumpMajor
    \/ BumpPatch

VersionSpec == VersionInit /\ [][VersionNext]_vars

\* ----------------------------------------- the changelog functions alone

\* update_changelog is called while CHANGELOG.md has fewer released sections
\* than this.
MaxReleases == 4

\* What precedes the pending heading: a title, or nothing.
DocPrefixes == { <<Text(11), Blank>>, <<>> }

\* The pending heading, or none.
DocHeadings == { <<Unreleased>>, <<>> }

\* What follows the pending heading: nothing; a blank line; entries under a
\* subsection heading; one short line; the six subsection headings alone.
DocPendings ==
    { <<>>,
      <<Blank>>,
      <<Blank, Sub(1), Text(24), Text(24), Blank>>,
      <<Text(3), Blank>>,
      <<Blank, Sub(1), Sub(2), Sub(3), Sub(4), Sub(5), Sub(6), Blank>> }

\* The rest of the document: nothing; the link block only; a released
\* section; released sections, newest first, with or without the link block;
\* released sections that have subsection headings without entries.
DocRests ==
    { <<>>,
      <<ULink(V031), VLink(V031, V020)>>,
      <<Release(V031), Sub(1), Text(12), Blank>>,
      <<Release(V031), Sub(1), Text(12), Blank, Release(V020), Text(12), Blank>>,
      <<Release(V031), Sub(1), Text(12), Blank, Release(V020), Text(12), Blank,
        ULink(V031), VLink(V031, V020)>>,
      <<Release(V031), Blank, Sub(1), Sub(3), Text(12), Blank, Text(12), Sub(5),
        Blank, Release(V020), Sub(1), Blank>> }

ChangelogDocs ==
    { File(a \o b \o c \o d) :
        a \in DocPrefixes, b \in DocHeadings, c \in DocPendings, d \in DocRests }
    \cup {Missing}

\* The number of "## [version] - date" headings of a text.
NumReleases(content) ==
    Cardinality({i \in 1..Len(content) : content[i].k = "release"})

\* A CHANGELOG.md is given, whose latest release is 0.3.1; validate_changelog
\* and update_changelog are called on it.
ChangelogInit ==
    /\ NoRun
    /\ \E doc \in ChangelogDocs :
          files = [f \in FileNames |-> IF f = "CHANGELOG.md" THEN doc ELSE Missing]
    /\ orig = files
    /\ current_version = V031
    /\ new_version = <<>>
    /\ pc = "changelog"

\* validate_changelog(): True or False is returned.
ValidateCall ==
    /\ pc \in {"changelog", "updated"}
    /\ pc' = IF validate_changelog(files["CHANGELOG.md"]) THEN "valid" ELSE "invalid"
    /\ UNCHANGED <<files, orig, current_version, new_version, RunVars>>

\* update_changelog(version) of one more release: the version is a bump of
\* the one released before; orig keeps the files as they were before the call.
\* Without a CHANGELOG.md or a pending heading no section is added, and the
\* call is made once.
UpdateCall ==
    /\ pc \in {"changelog", "updated"}
    /\ IF /\ files["CHANGELOG.md"].exists
          /\ \E i \in 1..Len(files["CHANGELOG.md"].data) :
                files["CHANGELOG.md"].data[i].k = "unreleased"
       THEN NumReleases(files["CHANGELOG.md"].data) < MaxReleases
       ELSE new_version = <<>>
    /\ \E major \in BOOLEAN, patch \in BOOLEAN :
          LET released == IF new_version = <<>> THEN current_version ELSE new_version
              version  == BumpVersion(major, patch, released)
          IN  /\ current_version' = released
              /\ new_version' = version
              /\ files' = [files EXCEPT !["CHANGELOG.md"] = update_changelog(@, version)]
    /\ orig' = files
    /\ pc' = "updated"
    /\ UNCHANGED RunVars

\* get_version_changelog_entry(version), for the version just released or one
\* of the earlier ones: new_version holds the argument; an entry or "" is
\* returned.
EntryCall ==
    /\ pc \in {"changelog", "updated"}
    /\ \E version \in {V031, V020, new_version} \ {<<>>} :
          /\ new_version' = version
          /\ pc' = IF get_version_changelog_entry(files["CHANGELOG.md"], version) = <<>>
                   THEN "no_entry" ELSE "entry"
    /\ UNCHANGED <<files, orig, current_version, RunVars>>

ChangelogNext ==
    \/ ValidateCall
    \/ UpdateCall
    \/ EntryCall

ChangelogSpec == ChangelogInit /\ [][ChangelogNext]_vars

\* ================================================================ claims

Terminated == pc = "exit"

LastExecuted == executed[Len(executed)]

\* The declared files exactly as before the run (a file that did not exist
\* still does not).
FilesAsBefore == \A f \in FileNames : files[f] = orig[f]

\* C1: a run that fails (a required step exited non-zero, or an exception was
\* raised) after create_backups completed and before any irreversible external
\* step succeeded ends with every declared file exactly as before the run.
C1_FailedRunRestoresFiles ==
    (/\ Terminated
     /\ outcome \in {"step_failed", "exception"}
     /\ backups_created
     /\ ~Irreversible)
    => FilesAsBefore

\* The snapshot of every declared file that existed before the run is in
\* .release-backup.
SnapshotComplete ==
    /\ backups_created
    /\ backup_dir.exists
    /\ \A f \in FileNames : orig[f].exists => backup_dir.snap[f] = orig[f]

\* C2: no declared file is written by update_pom_xml, update_main_java,
\* update_readme or update_changelog before create_backups has completed a
\* snapshot of every declared file that exists; until then the declared files
\* are not changed at all.
C2_BackupBeforeMutation ==
    [][/\ wrote' # wrote => SnapshotComplete
       /\ files' # files => backups_created]_vars

C2_Witness ==
    /\ wrote = FileNames
    /\ \A f \in FileNames : files[f] # orig[f] /\ backup_dir.snap[f] = orig[f]

\* The external commands in pipeline order.
PipelineOrder ==
    <<"run_tests", "build_package", "deploy_release", "git_add", "git_commit",
      "git_tag", "git_push", "git_push_tags", "gh_version", "gh_auth_status",
      "gh_release_create">>

\* The commands of PipelineOrder that the flags (and the answer at the deploy
\* gate, once given) enable.
StepEnabled(cmd) ==
    CASE cmd = "run_tests" -> ~args.skip_tests
      [] cmd = "deploy_release" -> do_deploy
      [] cmd \in {"git_push", "git_push_tags"} -> ~args.no_push
      [] cmd \in {"gh_version", "gh_auth_status", "gh_release_create"} ->
            ~args.no_github_release
      [] OTHER -> TRUE

EnabledSteps == SelectSeq(PipelineOrder, StepEnabled)

\* C3: the steps run strictly in pipeline order, after backup and mutation,
\* each only after every enabled step before it has succeeded; backups are
\* discarded only after them; and when a required step exits non-zero no later
\* step runs, the captured backups are restored and the exit code is non-zero.
C3_PipelineOrder ==
    /\ Len(executed) <= Len(EnabledSteps)
    /\ \A i \in 1..Len(executed) : executed[i].cmd = EnabledSteps[i]
    /\ \A i \in 1..(Len(executed) - 1) : executed[i].ok
    /\ executed # <<>> => backups_created /\ wrote = FileNames
    /\ (executed # <<>> /\ ~LastExecuted.ok /\ LastExecuted.cmd \notin {"gh_version", "gh_auth_status"})
          => pc \in {"restore_backups", "exit"}
    /\ (pc \in {"cleanup_backups", "summary"} \/ (Terminated /\ outcome = "success"))
          => \A i \in 1..Len(EnabledSteps) :
                EnabledSteps[i] \notin {"gh_version", "gh_auth_status", "gh_release_create"}
                    => Succeeded(EnabledSteps[i])
    /\ (Terminated /\ outcome = "step_failed")
          => /\ exit_code # 0
             /\ ~LastExecuted.ok
             /\ backup_dir.exists
             /\ \A f \in FileNames : orig[f].exists => files[f] = orig[f]

\* The run where "run tests" fails: nothing else ran and the files are back.
C3_Witness ==
    /\ Terminated
    /\ outcome = "step_failed"
    /\ executed = <<[cmd |-> "run_tests", ok |-> FALSE]>>
    /\ wrote = FileNames
    /\ restored = FileNames
    /\ FilesAsBefore
    /\ exit_code = 1

\* The pending section of a changelog text has no content: every line between
\* the first [Unreleased] heading and the next section heading, link or the
\* end of the text is blank.
PendingSectionEmpty(content) ==
    \E head \in 1..Len(content) :
        /\ content[head].k = "unreleased"
        /\ \A h \in 1..(head - 1) : content[h].k # "unreleased"
        /\ \A j \in (head + 1)..Len(content) :
              (\A h \in (head + 1)..j : content[h].k \in {"blank", "sub", "text"})
                  => content[j].k = "blank"

\* C4: a run without --dry-run on an empty pending section (or without a
\* CHANGELOG.md) exits non-zero before create_backups, before any write to a
\* declared file, before any confirmation prompt and before any command.
C4_EmptyPendingAborts ==
    (/\ ~args.dry_run
     /\ \/ ~orig["CHANGELOG.md"].exists
        \/ PendingSectionEmpty(orig["CHANGELOG.md"].data))
    => /\ prompts = 0
       /\ ~backups_created
       /\ backup_dir = orig_backup_dir
       /\ wrote = {}
       /\ FilesAsBefore
       /\ executed = <<>>
       /\ Terminated => exit_code # 0

\* C5: with --dry-run, whatever the other flags and the changelog, nothing is
\* written to a declared file, .release-backup is not created or changed, no
\* external command runs, no confirmation is asked, and the run (once the
\* current version was read and bumped, and unless the operator interrupts it)
\* exits with code 0.
C5_DryRunNoEffects ==
    args.dry_run =>
       /\ FilesAsBefore
       /\ wrote = {}
       /\ restored = {}
       /\ ~backups_created
       /\ backup_dir = orig_backup_dir
       /\ executed = <<>>
       /\ prompts = 0
       /\ (Terminated /\ current_version # <<>> /\ interrupts = <<>>) => exit_code = 0

\* A dry run on a changelog that would not validate, ended with exit code 0.
C5_Witness ==
    /\ args.dry_run
    /\ Terminated
    /\ exit_code = 0
    /\ "dry_run_plan" \in reported
    /\ ~validate_changelog(files["CHANGELOG.md"])
    /\ ~args.skip_tests /\ ~args.no_deploy /\ ~args.no_push /\ ~args.no_github_release

\* The steps that a flag can disable.
OptionalCmds == {"deploy_release", "git_push", "git_push_tags", "gh_release_create"}

C7_GhUnavailableSkipped ==
    (/\ executed # <<>>
     /\ LastExecuted.cmd \in {"gh_version", "gh_auth_status"}
     /\ ~LastExecuted.ok)
    => /\ reported \cap {"gh_not_found", "gh_not_authenticated"} # {}
       /\ "failed" \notin reported
       /\ Succeeded("git_commit") /\ Succeeded("git_tag")
       /\ ~args.no_push => Succeeded("git_push") /\ Succeeded("git_push_tags")
       /\ interrupts = <<>> =>
             /\ pc \in {"cleanup_backups", "summary", "exit"}
             /\ restored = {}
             /\ wrote = FileNames
             /\ Terminated => /\ exit_code = 0
                              /\ outcome = "success"
                              /\ ~backup_dir.exists

\* gh is absent, the tag was pushed, and the run completed.
C7_Witness ==
    /\ Terminated
    /\ exit_code = 0
    /\ executed # <<>>
    /\ LastExecuted = [cmd |-> "gh_version", ok |-> FALSE]
    /\ "gh_not_found" \in reported
    /\ Succeeded("git_push_tags")
    /\ ~backup_dir.exists
    /\ restored = {}

\* C8: when a required step fails after an irreversible external action has
\* succeeded, the declared files are restored and the run does not report that
\* all changes have been reverted.
C8_NoFalseRevertReport ==
    (Terminated /\ outcome = "step_failed" /\ Irreversible)
    => /\ FilesAsBefore
       /\ "all_reverted" \notin reported

\* C9: an interrupt that arrives inside the pipeline after the backups were
\* captured and before any irreversible action succeeded goes directly to
\* rollback: no further step runs, restore_backups runs before exit, every
\* declared file has its pre-run content (unless a second interrupt hits the
\* restoration) and the exit code is non-zero.
C9_InterruptRollsBack ==
    (/\ interrupts # <<>>
     /\ interrupts[1].in_try
     /\ interrupts[1].backed
     /\ ~interrupts[1].irreversible)
    => /\ Len(executed) = interrupts[1].steps
       /\ pc \in {"restore_backups", "exit"}
       /\ Terminated => exit_code # 0
       /\ (Terminated /\ Len(interrupts) = 1) => FilesAsBefore

\* C10: an interrupt that arrives after an irreversible action has succeeded
\* only stops further steps: restore_backups does not run and the declared
\* files keep their post-mutation content.
C10_InterruptAfterBoundaryKeepsFiles ==
    (/\ interrupts # <<>>
     /\ interrupts[1].pc \in TryLabels
     /\ interrupts[1].irreversible)
    => /\ Len(executed) = interrupts[1].steps
       /\ restored = {}
       /\ pc # "restore_backups"

\* C10 as amended: such an interrupt, at any statement of the try block but
\* the gh auth check (whose bare except swallows it), stops further steps and
\* does run restore_backups from the KeyboardInterrupt clause: unless it is
\* interrupted again, the run ends with exit code 1 and every declared file
\* whose snapshot still exists (all four unless cleanup_backups had begun) has
\* its pre-run content.
C10_InterruptAfterBoundaryRestores ==
    (/\ interrupts # <<>>
     /\ interrupts[1].pc \in TryLabels \ {"gh_auth_status"}
     /\ interrupts[1].irreversible)
    => /\ Len(executed) = interrupts[1].steps
       /\ pc \in {"restore_backups", "exit"}
       /\ handler = "KeyboardInterrupt"
       /\ "interrupted" \in reported
       /\ (Terminated /\ Len(interrupts) = 1)
             => /\ exit_code = 1
                /\ outcome = "interrupted"
                /\ \A f \in FileNames :
                      backup_dir.snap[f].exists => files[f] = orig[f] /\ f \in restored
                /\ interrupts[1].pc # "cleanup_backups"
                      => FilesAsBefore /\ restored = FileNames

\* The commits and tags were pushed, the operator interrupted the release
\* publication, and the files are back at their pre-run content.
C10_Witness ==
    /\ Terminated
    /\ Len(interrupts) = 1
    /\ interrupts[1].pc = "gh_release_create"
    /\ Succeeded("git_push_tags")
    /\ outcome = "interrupted"
    /\ wrote = FileNames
    /\ FilesAsBefore

\* C11: a negative or absent answer (n, an empty line, end of input) at a
\* confirmation prompt never fails the run. At the first prompt the run ends
\* with exit code 0, without backup, write or command; at the deploy prompt
\* the deployment is not run, nothing is restored, and the pipeline goes on
\* with the commit.
C11_DeclinedGateNeverFails ==
    [][/\ (pc = "confirm" /\ prompts' = prompts + 1 /\ pc' # "create_backups")
            => /\ pc' = "exit"
               /\ exit_code' = 0
               /\ ~backups_created'
               /\ backup_dir' = orig_backup_dir
               /\ files' = orig
               /\ executed' = <<>>
       /\ (pc = "deploy_gate" /\ prompts' = prompts + 1 /\ pc' # "deploy_release")
            => /\ pc' = "git_add"
               /\ ~do_deploy'
               /\ executed' = executed
               /\ restored' = {}
               /\ files' = files]_vars

\* The release publication was skipped because gh could not be used.
GhSkipped == reported \cap {"gh_not_found", "gh_not_authenticated", "gh_auth_unknown"} # {}

\* The run did all it was asked to do: a dry run printed its plan, or the
\* operator declined at the first prompt, or every declared file was updated,
\* nothing was restored, and every step that the flags and the deploy prompt
\* left enabled succeeded (the gh steps may have been skipped as unavailable).
FullOrPartialSuccess ==
    \/ args.dry_run /\ "dry_run_plan" \in reported
    \/ ~args.dry_run /\ "aborted" \in reported /\ wrote = {} /\ executed = <<>>
    \/ /\ ~args.dry_run
       /\ \A f \in FileNames : orig[f].exists => f \in wrote
       /\ restored = {}
       /\ \A i \in 1..Len(EnabledSteps) :
             \/ Succeeded(EnabledSteps[i])
             \/ /\ EnabledSteps[i] \in {"gh_version", "gh_auth_status", "gh_release_create"}
                /\ GhSkipped

\* The canonical version of the run is not three dot-separated integers.
InvalidVersion ==
    \/ ~orig["pom.xml"].exists
    \/ get_current_version(orig["pom.xml"].data) = ValueError
    \/ parse_version(get_current_version(orig["pom.xml"].data)) = ValueError

\* C12: a run ends with exit code 0 exactly when it ended (not by an
\* interrupt) in full or intentionally partial success (an optional step
\* disabled by a flag, declined by the operator or skipped as unavailable);
\* the exit code is non-zero when a step failed, when the version is invalid
\* and, outside a dry run, when the pending changelog section is empty.
C12_ExitCodeZeroIffSuccess ==
    Terminated =>
       /\ exit_code = 0 <=>
             (FullOrPartialSuccess /\ outcome \notin {"interrupted", "uncaught_interrupt"})
       /\ (\E i \in 1..Len(executed) :
              /\ ~executed[i].ok
              /\ executed[i].cmd \notin {"gh_version", "gh_auth_status"}) => exit_code # 0
       /\ InvalidVersion => exit_code # 0
       /\ (/\ ~args.dry_run
           /\ \/ ~orig["CHANGELOG.md"].exists
              \/ PendingSectionEmpty(orig["CHANGELOG.md"].data)) => exit_code # 0

\* C13: the backups are captured once, before any write to a declared file,
\* and are then either restored in full or discarded in full: restoration
\* never follows (part of) a discard, never reads a directory from which a
\* captured snapshot has been removed, and a run never ends with some of the
\* captured files restored and others not.
C13_BackupAllOrNothing ==
    /\ wrote # {} => backups_created
    /\ restored # {} =>
          /\ backup_dir.exists
          /\ "cleaned_up" \notin reported
          /\ \A f \in FileNames : orig[f].exists => backup_dir.snap[f] = orig[f]
    /\ (Terminated /\ restored # {}) =>
          \A f \in FileNames : orig[f].exists => f \in restored

\* cleanup_backups has removed a snapshot that create_backups captured, or
\* the directory.
DiscardStarted ==
    /\ backups_created
    /\ \/ ~backup_dir.exists
       \/ \E f \in FileNames : orig[f].exists /\ ~backup_dir.snap[f].exists

\* The content of a declared file after the four update_* calls.
PostMutation(f) ==
    CASE f = "pom.xml" -> update_pom_xml(orig[f], current_version, new_version)
      [] f = "Main.java" -> update_main_java(orig[f], current_version, new_version)
      [] f = "README.md" -> update_readme(orig[f], current_version, new_version)
      [] f = "CHANGELOG.md" -> update_changelog(orig[f], new_version)

\* C14: cleanup_backups discards only when every enabled step has succeeded
\* or been skipped, never in a run that ends in failure, and a run that ends
\* with the backups discarded leaves every declared file with its
\* post-mutation content.
C14_DiscardOnlyAfterSuccess ==
    DiscardStarted =>
       /\ \A i \in 1..Len(EnabledSteps) :
             \/ Succeeded(EnabledSteps[i])
             \/ /\ EnabledSteps[i] \in {"gh_version", "gh_auth_status", "gh_release_create"}
                /\ GhSkipped
       /\ Terminated => exit_code = 0
       /\ (Terminated /\ ~backup_dir.exists) =>
             \A f \in FileNames : files[f] = PostMutation(f)

\* C15: restore_backups is idempotent. For any backup directory and any
\* content of the declared files, a second call leaves the files as the first
\* call left them: every file that has a snapshot has the snapshot's content
\* (its pre-run content, for a file captured by create_backups), a file
\* without a snapshot is left as it is, and after a run's completed
\* restoration another call changes nothing.
C15_RestoreIdempotent ==
    LET once  == restore_backups(files, backup_dir, backups_created)
        twice == restore_backups(once, backup_dir, backups_created)
    IN  /\ twice = once
        /\ (backups_created /\ backup_dir.exists) =>
              \A f \in FileNames :
                 /\ backup_dir.snap[f].exists => once[f] = backup_dir.snap[f]
                 /\ ~backup_dir.snap[f].exists => once[f] = files[f]
                 /\ (backup_dir.snap[f].exists /\ orig[f].exists) => once[f] = orig[f]
        /\ (~backups_created \/ ~backup_dir.exists) => once = files
        /\ (Terminated /\ outcome \in {"step_failed", "exception", "interrupted"})
              => once = files

\* update_main_java failed on a missing Main.java after pom.xml was updated;
\* restore_backups copied back the three files that have a snapshot and
\* skipped Main.java, which has none; another call would change nothing.
C15_Witness ==
    /\ Terminated
    /\ outcome = "exception"
    /\ wrote = {"pom.xml"}
    /\ restored = FileNames \ {"Main.java"}
    /\ ~backup_dir.snap["Main.java"].exists
    /\ FilesAsBefore
    /\ restore_backups(files, backup_dir, backups_created) = files

\* A version text "x.y.z" of three non-negative integers as str() writes them.
CanonicalVersion(v) ==
    /\ Len(v) = 3
    /\ \A i \in 1..3 : IsDigits(v[i]) /\ v[i] = StrOf(IntOf(v[i]))

ThreeNaturals(v) == Len(v) = 3 /\ \A i \in 1..3 : IsDigits(v[i])

\* C17: parse_version returns a triple exactly for the texts that consist of
\* three dot-separated non-negative integers, and raises ValueError for every
\* other text (wrong number of components, empty, non-numeric or negative
\* component).
C17_ParseAcceptsOnlyThreeNaturals ==
    /\ pc = "parsed" => ThreeNaturals(current_version)
    /\ pc = "ValueError" => ~ThreeNaturals(current_version)

\* C18: for every text that parse_version accepts, formatting the parsed
\* triple as "major.minor.patch" gives the text back unchanged.
C18_ParseFormatRoundTrip ==
    pc = "formatted" => new_version = current_version

\* The index of the first [Unreleased] heading of a text, 0 when it has none.
PendingHeading(content) ==
    IF \E i \in 1..Len(content) : content[i].k = "unreleased"
    THEN CHOOSE i \in 1..Len(content) :
            /\ content[i].k = "unreleased"
            /\ \A h \in 1..(i - 1) : content[h].k # "unreleased"
    ELSE 0

\* The pending section of a text that has a pending heading: the lines below
\* the heading, up to the next section heading, the link block or the end of
\* the text.
PendingSection(content) ==
    LET head == PendingHeading(content)
        stops == {j \in (head + 1)..Len(content) :
                    content[j].k \in {"unreleased", "release", "ulink", "vlink"}}
        stop == IF stops = {} THEN Len(content) + 1
                ELSE CHOOSE j \in stops : \A h \in stops : j <= h
    IN  SubSeq(content, head + 1, stop - 1)

\* The length of a section's content without the blank lines around it.
TrimmedLen(lines) ==
    LET full == {i \in 1..Len(lines) : lines[i].k # "blank"}
    IN  IF full = {} THEN 0
        ELSE LET from == CHOOSE i \in full : \A h \in full : i <= h
                 to   == CHOOSE i \in full : \A h \in full : h <= i
             IN  TextLen(SubSeq(lines, from, to))

\* C19: validate_changelog returns True exactly when the pending section
\* exists and its trimmed content has at least the minimum length (20
\* characters), whatever follows the section; it returns False for an empty
\* or whitespace-only pending section.
C19_ValidateIffPendingContent ==
    pc \in {"valid", "invalid"} =>
       (pc = "valid" <=>
           /\ files["CHANGELOG.md"].exists
           /\ PendingHeading(files["CHANGELOG.md"].data) # 0
           /\ TrimmedLen(PendingSection(files["CHANGELOG.md"].data)) >= MinEntryLen)

\* The indices of the section headings of a text, by kind.
HeadingsOf(content, kind) == {i \in 1..Len(content) : content[i].k = kind}

\* Version a is older than version b (both as parse_version reads them).
OlderVersion(a, b) ==
    LET x == parse_version(a)
        y == parse_version(b)
    IN  \/ x[1] < y[1]
        \/ x[1] = y[1] /\ x[2] < y[2]
        \/ x[1] = y[1] /\ x[2] = y[2] /\ x[3] < y[3]

\* The lines of a section other than links: from line i + 1 to the next
\* section heading or the end of the text.
SectionBelow(content, i) ==
    LET stops == {j \in (i + 1)..Len(content) : IsSectionHeading(content[j])}
        stop == IF stops = {} THEN Len(content) + 1
                ELSE CHOOSE j \in stops : \A h \in stops : j <= h
        IsEntry(l) == l.k \notin {"ulink", "vlink"}
    IN  SelectSeq(SubSeq(content, i + 1, stop - 1), IsEntry)

\* C20: after update_changelog calls for successive releases on a document
\* with exactly one pending heading, the document has exactly one pending
\* heading, where it was, above every versioned heading; the new version's
\* heading is the first heading below it, with only the fresh subsection
\* headings in between, and has the old pending content below it; the
\* versioned headings are ordered newest first, so none is duplicated. This
\* holds also when the pending section was empty.
C20_ChangelogStructure ==
    LET before == orig["CHANGELOG.md"].data
        after == files["CHANGELOG.md"].data
    IN  (/\ pc = "updated"
         /\ orig["CHANGELOG.md"].exists
         /\ Cardinality(HeadingsOf(before, "unreleased")) = 1)
        => LET head == PendingHeading(after)
               new == head + Len(VersionSection(new_version)) - 1
           IN  /\ HeadingsOf(after, "unreleased") = {head}
               /\ head = PendingHeading(before)
               /\ \A i \in HeadingsOf(after, "release") : head < i
               /\ after[new] = Release(new_version)
               /\ \A i \in (head + 1)..(new - 1) : after[i].k \in {"blank", "sub"}
               /\ SectionBelow(after, new) = SectionBelow(before, head)
               /\ NumReleases(after) = NumReleases(before) + 1
               /\ \A i, j \in HeadingsOf(after, "release") :
                     i < j => OlderVersion(after[j].v, after[i].v)

\* Two releases were promoted, the second one, 0.4.0, from the pending section
\* without entries that the first one, 0.3.2, left: their headings are above
\* those of 0.3.1 and 0.2.0 and below the one pending heading.
C20_Witness ==
    /\ pc = "updated"
    /\ current_version = <<<<0>>, <<3>>, <<2>>>>
    /\ new_version = <<<<0>>, <<4>>, <<0>>>>
    /\ NumReleases(files["CHANGELOG.md"].data) = 4
    /\ Cardinality(HeadingsOf(files["CHANGELOG.md"].data, "unreleased")) = 1
    /\ LET pending == PendingSection(orig["CHANGELOG.md"].data)
       IN  \A i \in 1..Len(pending) : pending[i].k \in {"blank", "sub"}
    /\ files["CHANGELOG.md"].data[PendingHeading(files["CHANGELOG.md"].data) + 9]
          = Release(new_version)

\* The link lines of a text, in order, of one kind.
LinksOf(content, kind) ==
    LET IsKind(l) == l.k = kind
    IN  SelectSeq(content, IsKind)

\* C21: when update_changelog promotes version V on a document that has one
\* [Unreleased] link, comparing vP with HEAD, the result has exactly one
\* [Unreleased] link, comparing vV with HEAD, directly followed by the one new
\* link [V] comparing vP with vV; the other links are unchanged, and no other
\* line is touched by the link rewrite.
C21_LinksRewritten ==
    LET before == orig["CHANGELOG.md"].data
        after == files["CHANGELOG.md"].data
    IN  (/\ pc = "updated"
         /\ orig["CHANGELOG.md"].exists
         /\ Len(LinksOf(before, "ulink")) = 1)
        => LET P == LinksOf(before, "ulink")[1].p
               NotNew(l) == l # VLink(new_version, P)
           IN  /\ LinksOf(after, "ulink") = <<ULink(new_version)>>
               /\ \E i \in 1..(Len(after) - 1) :
                     /\ after[i] = ULink(new_version)
                     /\ after[i + 1] = VLink(new_version, P)
               /\ Len(LinksOf(after, "vlink")) = Len(LinksOf(before, "vlink")) + 1
               /\ SelectSeq(LinksOf(after, "vlink"), NotNew) = LinksOf(before, "vlink")
               /\ P = current_version

\* The second of two releases: [Unreleased] now compares v0.4.0 with HEAD, and
\* the links of 0.4.0, 0.3.2 and 0.3.1 follow.
C21_Witness ==
    /\ pc = "updated"
    /\ new_version = <<<<0>>, <<4>>, <<0>>>>
    /\ files["CHANGELOG.md"].exists
    /\ LinksOf(files["CHANGELOG.md"].data, "ulink") = <<ULink(new_version)>>
    /\ LinksOf(files["CHANGELOG.md"].data, "vlink")
          = <<VLink(new_version, <<<<0>>, <<3>>, <<2>>>>),
              VLink(<<<<0>>, <<3>>, <<2>>>>, V031),
              VLink(V031, V020)>>

\* The body of the released section of a version: the lines below its heading,
\* up to the next section heading, the link block or the end of the text.
ReleasedSection(content, version) ==
    IF ~\E i \in 1..Len(content) : content[i] = Release(version) THEN <<>>
    ELSE LET head == CHOOSE i \in 1..Len(content) :
                        /\ content[i] = Release(version)
                        /\ \A h \in 1..(i - 1) : content[h] # Release(version)
             stops == {j \in (head + 1)..Len(content) :
                         content[j].k \in {"unreleased", "release", "ulink", "vlink"}}
             stop == IF stops = {} THEN Len(content) + 1
                     ELSE CHOOSE j \in stops : \A h \in stops : j <= h
         IN  SubSeq(content, head + 1, stop - 1)

\* Line i of a section is a content line, or a subsection heading with a
\* content line after it and before the next subsection heading.
KeptLine(section, i) ==
    \/ section[i].k = "text"
    \/ /\ section[i].k = "sub"
       /\ \E j \in (i + 1)..Len(section) :
             /\ section[j].k = "text"
             /\ \A h \in (i + 1)..(j - 1) : section[h].k # "sub"

RECURSIVE KeptLines(_, _)
KeptLines(section, i) ==
    IF i > Len(section) THEN <<>>
    ELSE (IF KeptLine(section, i) THEN <<section[i]>> ELSE <<>>)
         \o KeptLines(section, i + 1)

\* C22: get_version_changelog_entry(V) returns the body of the released
\* section headed ## [V] and nothing else: its content lines, once each and in
\* order, and each subsection heading that has a content line before the next
\* subsection heading.
C22_EntryIsSectionBody ==
    (pc \in {"entry", "no_entry"} /\ files["CHANGELOG.md"].exists)
    => get_version_changelog_entry(files["CHANGELOG.md"], new_version)
          = KeptLines(ReleasedSection(files["CHANGELOG.md"].data, new_version), 1)

\* The declared old-version string of artifact f is absent from the file the
\* run started with.
PatternAbsent(f) ==
    /\ current_version # <<>>
    /\ orig[f].exists
    /\ \A j \in 1..Len(orig[f].data) : orig[f].data[j] # VersionTok(current_version)

\* C23: when the declared version pattern is absent from pom.xml, Main.java
\* or README.md, the substitution is not reported as an update, the file is
\* not written (its content did not change), and the run aborts before any
\* further step: no external command is executed and the run does not end
\* in success.
C23_AbsentPatternIsFailure ==
    \A f \in {"pom.xml", "Main.java", "README.md"} :
        PatternAbsent(f) =>
            /\ UpdatedMessage(f) \notin reported
            /\ f \notin wrote
            /\ executed = <<>>
            /\ "success" \notin reported

V040 == <<<<0>>, <<4>>, <<0>>>>

\* The position in pom.xml that get_current_version read the version from.
VersionPosition(pom) ==
    CHOOSE i \in 1..Len(pom) :
        /\ pom[i].k = "version"
        /\ \A j \in 1..(i - 1) : pom[j].k # "version"

\* What the update of artifact f must leave in it: in pom.xml the new version
\* at the position the current version was read from, in Main.java and
\* README.md the new version in place of every occurrence of the old
\* one, everything else as it was.
Rewritten(f, before) ==
    [j \in 1..Len(before) |->
        IF f = "pom.xml"
        THEN IF j = VersionPosition(before) THEN VersionTok(new_version) ELSE before[j]
        ELSE IF before[j] = VersionTok(current_version)
             THEN VersionTok(new_version) ELSE before[j]]

\* C24: the update of pom.xml rewrites only the first occurrence of the old
\* version (the one the current version was read from), the updates of
\* Main.java and README.md rewrite every occurrence, nothing else in any
\* artifact changes, and a minor bump of 0.3.1 writes 0.4.0.
C24_VersionRewrite ==
    [][\A f \in {"pom.xml", "Main.java", "README.md"} :
          (f \in wrote' /\ f \notin wrote) =>
              /\ files'[f] = File(Rewritten(f, files[f].data))
              /\ \A g \in FileNames \ {f} : files'[g] = files[g]
              /\ (current_version = V031 /\ ~args.major /\ ~args.patch)
                    => new_version = V040]_vars

\* pom.xml names 0.3.1 twice and README.md twice: after the three updates of
\* a minor bump only the first one of pom.xml is 0.4.0, both of README.md are.
C24_Witness ==
    /\ pc = "update_changelog"
    /\ orig["pom.xml"].data = <<TextTok, VersionTok(V031), TextTok, VersionTok(V031)>>
    /\ files["pom.xml"].data = <<TextTok, VersionTok(V040), TextTok, VersionTok(V031)>>
    /\ files["README.md"].data = <<VersionTok(V040), TextTok, VersionTok(V040)>>
    /\ files["Main.java"].data = <<TextTok, VersionTok(V040)>>

\* ------------------------------------------- src/bin/sync-documentation.py

\* README.md, the YAML files and the help output are sequences of tokens:
\* the BEGIN / END comment of a section, a fence (``` with or without a
\* language), a newline, a backslash, and other text.
Begin(marker) == [k |-> "begin", m |-> marker]
End(marker) == [k |-> "end", m |-> marker]
Fence(language) == [k |-> "fence", m |-> language]
Newline == [k |-> "newline", m |-> ""]
Backslash == [k |-> "backslash", m |-> ""]
Words(n) == [k |-> "words", m |-> n]

\* \s* from position i: the position of the first token that is not
\* whitespace (Len + 1 if there is none).
SkipWhitespace(content, i) ==
    CHOOSE j \in i..(Len(content) + 1) :
        /\ j = Len(content) + 1 \/ content[j] # Newline
        /\ \A h \in i..(j - 1) : content[h] = Newline

\* (<!-- BEGIN marker -->\s*```language) matches at i; the pattern of the
\* help sections has no language and matches the fence of any language.
OpensAt(content, i, section_marker, language) ==
    /\ content[i] = Begin(section_marker)
    /\ LET j == SkipWhitespace(content, i + 1)
       IN  /\ j <= Len(content)
           /\ content[j].k = "fence"
           /\ language # "" => content[j].m = language

\* (```\s*<!-- END marker -->) matches at k.
ClosesAt(content, k, section_marker) ==
    /\ content[k] = Fence("")
    /\ LET e == SkipWhitespace(content, k + 1)
       IN  e <= Len(content) /\ content[e] = End(section_marker)

\* The whole pattern matches from position i.
MatchesAt(content, i, section_marker, language) ==
    /\ OpensAt(content, i, section_marker, language)
    /\ \E k \in (SkipWhitespace(content, i + 1) + 1)..Len(content) :
          ClosesAt(content, k, section_marker)

\* new_content.replace('\\', '\\\\')
RECURSIVE EscapeBackslashes(_)
EscapeBackslashes(text) ==
    IF text = <<>> THEN <<>>
    ELSE IF Head(text) = Backslash
         THEN <<Backslash, Backslash>> \o EscapeBackslashes(Tail(text))
         ELSE <<Head(text)>> \o EscapeBackslashes(Tail(text))

\* What re.sub makes of the escaped text inside the replacement template: two
\* backslashes stand for one (a single one does not occur after the
\* escape).
RECURSIVE ExpandTemplate(_)
ExpandTemplate(template) ==
    IF template = <<>> THEN <<>>
    ELSE IF Len(template) >= 2 /\ template[1] = Backslash /\ template[2] = Backslash
         THEN <<Backslash>> \o ExpandTemplate(Tail(Tail(template)))
         ELSE <<Head(template)>> \o ExpandTemplate(Tail(template))

\* re.sub(pattern, rf'\g<1>\n{escaped}\n\g<3>', content, flags=re.DOTALL) on
\* content from position from: every match, left to right, each one ending
\* at the first closing fence and END comment (.*? is lazy).
RECURSIVE SubstituteFrom(_, _, _, _, _)
SubstituteFrom(content, from, section_marker, escaped, language) ==
    IF \E i \in from..Len(content) : MatchesAt(content, i, section_marker, language)
    THEN LET i == CHOOSE i \in from..Len(content) :
                     /\ MatchesAt(content, i, section_marker, language)
                     /\ \A h \in from..(i - 1) :
                           ~MatchesAt(content, h, section_marker, language)
             j == SkipWhitespace(content, i + 1)
             k == CHOOSE k \in (j + 1)..Len(content) :
                     /\ ClosesAt(content, k, section_marker)
                     /\ \A h \in (j + 1)..(k - 1) : ~ClosesAt(content, h, section_marker)
             e == SkipWhitespace(content, k + 1)
         IN  SubSeq(content, from, j - 1) \o <<Fence(language), Newline>>
                \o ExpandTemplate(escaped) \o <<Newline>> \o SubSeq(content, k, e)
                \o SubstituteFrom(content, e + 1, section_marker, escaped, language)
    ELSE SubSeq(content, from, Len(content))

update_readme_section(content, section_marker, new_content, language) ==
    IF \E i \in 1..Len(content) : MatchesAt(content, i, section_marker, language)
    THEN SubstituteFrom(content, 1, section_marker,
                        EscapeBackslashes(new_content), language)
    ELSE content

\* str.splitlines(): the lines of a text, without their line ends.
RECURSIVE splitlines(_)
splitlines(text) ==
    IF text = <<>> THEN <<>>
    ELSE IF \E n \in 1..Len(text) : text[n] = Newline
         THEN LET n == CHOOSE n \in 1..Len(text) :
                          /\ text[n] = Newline
                          /\ \A h \in 1..(n - 1) : text[h] # Newline
              IN  <<SubSeq(text, 1, n - 1)>> \o splitlines(SubSeq(text, n + 1, Len(text)))
         ELSE <<text>>

\* '\n'.join(lines)
RECURSIVE join(_)
join(lines) ==
    IF lines = <<>> THEN <<>>
    ELSE IF Len(lines) = 1 THEN lines[1]
    ELSE lines[1] \o <<Newline>> \o join(Tail(lines))

\* str.strip(): without the whitespace at both ends.
RECURSIVE strip(_)
strip(text) ==
    IF text = <<>> THEN <<>>
    ELSE IF Head(text) = Newline THEN strip(Tail(text))
    ELSE IF text[Len(text)] = Newline THEN strip(SubSeq(text, 1, Len(text) - 1))
    ELSE text

\* The two loops that pop the empty lines at both ends of help_lines.
RECURSIVE PopEmptyLines(_)
PopEmptyLines(help_lines) ==
    IF help_lines = <<>> THEN <<>>
    ELSE IF Head(help_lines) = <<>> THEN PopEmptyLines(Tail(help_lines))
    ELSE IF help_lines[Len(help_lines)] = <<>>
         THEN PopEmptyLines(SubSeq(help_lines, 1, Len(help_lines) - 1))
    ELSE help_lines

\* f"help_{command.replace('-', '_').replace(' ', '_')}"
HelpMarker(command) ==
    CASE command = "redact" -> "help_redact"
      [] command = "redact-text" -> "help_redact_text"
      [] command = "words discover" -> "help_words_discover"

update_readme_help_section(content, command, help_text) ==
    IF \E i \in 1..Len(content) : MatchesAt(content, i, HelpMarker(command), "")
    THEN SubstituteFrom(content, 1, HelpMarker(command),
                        EscapeBackslashes(join(PopEmptyLines(splitlines(help_text)))), "")
    ELSE content

\* read_yaml_skipping_lines(path, skip_lines): "" when the file is missing.
read_yaml_skipping_lines(file, skip_lines) ==
    IF ~file.exists THEN <<>>
    ELSE LET lines == splitlines(file.data)
         IN  join(SubSeq(lines, skip_lines + 1, Len(lines)))

\* The body the three sync_*_to_readme functions share: the section is
\* updated with the stripped YAML text unless the text read is empty.
SyncYamlToReadme(readme_content, file, skip_lines, section_marker) ==
    LET yaml_content == read_yaml_skipping_lines(file, skip_lines)
    IN  IF yaml_content # <<>>
        THEN update_readme_section(readme_content, section_marker,
                                   strip(yaml_content), "yaml")
        ELSE readme_content

sync_config_template_to_readme(readme_content, fs) ==
    SyncYamlToReadme(readme_content, fs["config-template.yaml"], 5, "config_template")

sync_default_yaml_to_readme(readme_content, fs) ==
    SyncYamlToReadme(readme_content, fs["default.yaml"], 2, "default_yaml")

sync_strict_yaml_to_readme(readme_content, fs) ==
    SyncYamlToReadme(readme_content, fs["strict.yaml"], 2, "strict_yaml")

\* Three of the nine commands whose --help output is collected, in the order
\* of the list.
Commands == <<"redact", "redact-text", "words discover">>

\* The loop of build_project_and_get_help from command i on: the stripped
\* stdout of a command that returns 0, else its stripped stderr if there is
\* any; the pairs are in the order of insertion into help_outputs.
RECURSIVE HelpOutputsFrom(_, _)
HelpOutputsFrom(results, i) ==
    IF i > Len(Commands) THEN <<>>
    ELSE LET result == results[Commands[i]]
         IN  (IF result.returncode = 0 THEN <<<<Commands[i], strip(result.stdout)>>>>
              ELSE IF strip(result.stderr) # <<>>
                   THEN <<<<Commands[i], strip(result.stderr)>>>>
              ELSE <<>>)
             \o HelpOutputsFrom(results, i + 1)

\* build_project_and_get_help(): {} when the build fails or leaves no JAR
\* (jar is missing), else what the JAR prints for each command.
build_project_and_get_help(jar) ==
    IF ~jar.exists THEN <<>> ELSE HelpOutputsFrom(jar.data, 1)

RECURSIVE sync_help_to_readme(_, _)
sync_help_to_readme(readme_content, help_outputs) ==
    IF help_outputs = <<>> THEN readme_content
    ELSE sync_help_to_readme(
             update_readme_help_section(readme_content, help_outputs[1][1],
                                        help_outputs[1][2]),
             Tail(help_outputs))

\* <artifactId>jstall</artifactId> in pom.xml.
ArtifactTok == [k |-> "artifact", v |-> <<>>]

\* extract_version_from_java(): the first VERSION = "..." of Version.java;
\* ValueError stands for the two sys.exit(1) of the function.
extract_version_from_java(version_file) ==
    IF version_file.exists THEN get_current_version(version_file.data) ELSE ValueError

\* The re.sub of update_pom_version: the version that follows the first
\* artifactId of jstall is replaced (count=1).
update_pom_version(content, version) ==
    [j \in 1..Len(content) |->
        IF /\ j > 1
           /\ content[j].k = "version"
           /\ content[j - 1] = ArtifactTok
           /\ \A h \in 2..(j - 1) :
                 ~(content[h].k = "version" /\ content[h - 1] = ArtifactTok)
        THEN VersionTok(version) ELSE content[j]]

\* At most MaxRuns runs of the documentation sync are followed.
MaxRuns == 2

SyncFileNames ==
    {"README.md", "pom.xml", "Version.java", "config-template.yaml", "default.yaml",
     "strict.yaml", "jstall.jar", ".git/hooks", "pre-commit"}

Markers == {"config_template", "default_yaml", "strict_yaml"}

\* README.md: a YAML section and a help section; a marker with two sections,
\* a help section fenced with a language and a section without its END
\* comment; no section; no README.md.
SyncReadmes ==
    { File(<<Words(1), Newline, Begin("config_template"), Newline, Fence("yaml"),
             Newline, Words(2), Newline, Fence(""), Newline, End("config_template"),
             Newline, Begin("help_redact"), Newline, Fence(""), Newline, Words(3),
             Newline, Fence(""), Newline, End("help_redact"), Newline, Words(4)>>),
      File(<<Begin("default_yaml"), Fence("yaml"), Fence(""), End("default_yaml"),
             Words(1), Begin("help_redact_text"), Newline, Fence("yaml"), Words(2),
             Fence(""), End("help_redact_text"), Newline,
             Begin("default_yaml"), Fence("yaml"), Words(3), Newline, Fence(""),
             Newline, End("default_yaml"), Begin("strict_yaml"), Fence("yaml"),
             Words(4), Fence("")>>),
      File(<<Words(1), Newline>>),
      Missing }

\* The comment lines that the sync skips at the top of a YAML file.
RECURSIVE HeaderLines(_)
HeaderLines(n) == IF n = 0 THEN <<>> ELSE <<Words(0), Newline>> \o HeaderLines(n - 1)

\* config-template.yaml: one line; a text that quotes the end of its own
\* README section and has a backslash; nothing after the header; no file.
ConfigTemplates ==
    { File(HeaderLines(5) \o <<Words(5), Newline>>),
      File(HeaderLines(5) \o <<Words(5), Backslash, Newline, Fence(""), Newline,
                                End("config_template"), Newline, Words(6), Newline>>),
      File(HeaderLines(5)),
      Missing }

DefaultYamls == { File(HeaderLines(2) \o <<Newline, Words(7), Newline, Newline>>), Missing }

StrictYamls == { File(HeaderLines(2) \o <<Words(8)>>) }

\* What java -jar jstall.jar <command> --help returns.
HelpResult(returncode, stdout, stderr) ==
    [returncode |-> returncode, stdout |-> stdout, stderr |-> stderr]

\* target/jstall.jar: the build fails; help on stdout, on stderr with a
\* failing return code, and none; help with empty lines around it.
Jars ==
    { Missing,
      File([c \in {"redact", "redact-text", "words discover"} |->
              CASE c = "redact" -> HelpResult(0, <<Words(3), Newline>>, <<>>)
                [] c = "redact-text" -> HelpResult(2, <<>>, <<Newline, Words(2)>>)
                [] c = "words discover" -> HelpResult(1, <<>>, <<Newline>>)]),
      File([c \in {"redact", "redact-text", "words discover"} |->
              HelpResult(0, <<Newline, Words(9), Newline, Newline, Words(9), Newline>>,
                         <<>>)]) }

VersionJavas == { File(<<TextTok, VersionTok(V031)>>), Missing }

SyncPoms ==
    { File(<<VersionTok(V020), ArtifactTok, VersionTok(V020), TextTok, ArtifactTok,
             VersionTok(V020)>>),
      Missing }

HooksDirs == { File(<<>>), Missing }

\* --dry-run, --install, --skip-build
SyncArgSets == [dry_run : BOOLEAN, install : BOOLEAN, skip_build : BOOLEAN]

\* Replacement texts for update_readme_section / update_readme_help_section.
Replacements ==
    { <<>>,
      <<Words(9)>>,
      <<Newline, Words(9), Backslash, Newline>>,
      <<Words(9), Newline, Fence(""), Newline, End("config_template"), Newline, Words(6)>>,
      <<Fence(""), End("help_redact")>> }

\* The variables of the release run, which the documentation sync has not.
NoRelease ==
    /\ backup_dir = [exists |-> FALSE, snap |-> [f \in FileNames |-> Missing]]
    /\ backups_created = FALSE
    /\ handler = ""
    /\ do_deploy = FALSE
    /\ outcome = ""
    /\ interrupts = <<>>
    /\ orig_backup_dir = backup_dir
    /\ prompts = 0
    /\ restored = {}
    /\ current_version = <<>>
    /\ new_version = <<>>

ReleaseVars ==
    <<backup_dir, backups_created, handler, do_deploy, outcome, interrupts,
      orig_backup_dir, prompts, restored, current_version, new_version>>

SyncInit ==
    /\ NoRelease
    /\ args \in SyncArgSets
    /\ \E readme \in SyncReadmes, pom \in SyncPoms, java \in VersionJavas,
          config \in ConfigTemplates, default \in DefaultYamls, strict \in StrictYamls,
          jar \in Jars, hooks \in HooksDirs :
          files = [f \in SyncFileNames |->
                      CASE f = "README.md" -> readme
                        [] f = "pom.xml" -> pom
                        [] f = "Version.java" -> java
                        [] f = "config-template.yaml" -> config
                        [] f = "default.yaml" -> default
                        [] f = "strict.yaml" -> strict
                        [] f = "jstall.jar" -> jar
                        [] f = ".git/hooks" -> hooks
                        [] f = "pre-commit" -> Missing]
    /\ orig = files
    /\ pc = "sync"
    /\ idx = 0
    /\ executed = <<>>
    /\ exit_code = -1
    /\ wrote = {}
    /\ reported = {}

\* README.md as main() of the sync computes it: the three YAML sections, then
\* the help sections unless --skip-build is given or no help was collected.
SyncedReadme(fs, skip_build) ==
    LET yaml == sync_strict_yaml_to_readme(
                    sync_default_yaml_to_readme(
                        sync_config_template_to_readme(fs["README.md"].data, fs), fs), fs)
        help_outputs == build_project_and_get_help(fs["jstall.jar"])
    IN  IF ~skip_build /\ help_outputs # <<>>
        THEN sync_help_to_readme(yaml, help_outputs)
        ELSE yaml

\* One run of main() of sync-documentation.py: wrote holds the files it
\* wrote, reported what it printed, orig the files before it.
SyncMain ==
    /\ pc \in {"sync", "synced"}
    /\ idx < MaxRuns
    /\ idx' = idx + 1
    /\ orig' = files
    /\ executed' = Append(executed, "main")
    /\ pc' = "synced"
    /\ IF args.install
       THEN IF files[".git/hooks"].exists
            THEN /\ files' = [files EXCEPT !["pre-commit"] = File(<<TextTok>>)]
                 /\ wrote' = {"pre-commit"}
                 /\ reported' = {"hook_installed"}
                 /\ exit_code' = 0
            ELSE /\ reported' = {"hooks_not_found"}
                 /\ exit_code' = 1
                 /\ wrote' = {}
                 /\ UNCHANGED files
       ELSE IF ~files["README.md"].exists
       THEN /\ reported' = {"readme_not_found"}
            /\ exit_code' = 1
            /\ wrote' = {}
            /\ UNCHANGED files
       ELSE IF extract_version_from_java(files["Version.java"]) = ValueError
       THEN /\ reported' = {"version_not_found"}
            /\ exit_code' = 1
            /\ wrote' = {}
            /\ UNCHANGED files
       ELSE LET version == extract_version_from_java(files["Version.java"])
                pom == IF files["pom.xml"].exists
                       THEN File(update_pom_version(files["pom.xml"].data, version))
                       ELSE Missing
                readme == File(SyncedReadme(files, args.skip_build))
                changed == { f \in {"pom.xml", "README.md"} :
                               files[f] # (IF f = "pom.xml" THEN pom ELSE readme) }
            IN  /\ files' = IF args.dry_run THEN files
                            ELSE [files EXCEPT !["pom.xml"] = pom, !["README.md"] = readme]
                /\ wrote' = IF args.dry_run THEN {} ELSE changed
                /\ reported' = {"complete"}
                     \cup (IF "pom.xml" \in changed
                           THEN {IF args.dry_run THEN "would_update_pom" ELSE "updated_pom"}
                           ELSE {})
                     \cup (IF "README.md" \in changed
                           THEN {IF args.dry_run THEN "dry_run_readme" ELSE "updated_readme"}
                           ELSE {"readme_up_to_date"})
                /\ exit_code' = 0
    /\ UNCHANGED <<args, ReleaseVars>>

\* update_readme_section(README, marker, text) for one of the YAML markers and
\* one of the replacement texts.
SectionCall ==
    /\ pc = "sync"
    /\ files["README.md"].exists
    /\ \E section_marker \in Markers, new_content \in Replacements :
          files' = [files EXCEPT !["README.md"] =
                       File(update_readme_section(@.data, section_marker,
                                                  new_content, "yaml"))]
    /\ orig' = files
    /\ executed' = Append(executed, "update_readme_section")
    /\ pc' = "section_updated"
    /\ UNCHANGED <<args, idx, exit_code, wrote, reported, ReleaseVars>>

\* update_readme_help_section(README, command, text) for one of the commands
\* and one of the replacement texts.
HelpSectionCall ==
    /\ pc = "sync"
    /\ files["README.md"].exists
    /\ \E i \in 1..Len(Commands), help_text \in Replacements :
          files' = [files EXCEPT !["README.md"] =
                       File(update_readme_help_section(@.data, Commands[i], help_text))]
    /\ orig' = files
    /\ executed' = Append(executed, "update_readme_help_section")
    /\ pc' = "help_section_updated"
    /\ UNCHANGED <<args, idx, exit_code, wrote, reported, ReleaseVars>>

SyncNext ==
    \/ SyncMain
    \/ SectionCall
    \/ HelpSectionCall

SyncSpec == SyncInit /\ [][SyncNext]_vars

\* The positions of README.md before its first BEGIN comment and after its
\* last END comment (all of them when it has no BEGIN or no END comment).
OutsideMarkers(content) ==
    LET begins == { i \in 1..Len(content) : content[i].k = "begin" }
        ends == { i \in 1..Len(content) : content[i].k = "end" }
    IN  IF begins = {} \/ ends = {} THEN <<content, <<>>>>
        ELSE LET first == CHOOSE i \in begins : \A h \in begins : i <= h
                 last == CHOOSE i \in ends : \A h \in ends : h <= i
             IN  <<SubSeq(content, 1, first - 1), SubSeq(content, last + 1, Len(content))>>

\* A text ends with a given text.
EndsWith(content, suffix) ==
    /\ Len(suffix) <= Len(content)
    /\ SubSeq(content, Len(content) - Len(suffix) + 1, Len(content)) = suffix

SyncIdempotent ==
    files["README.md"].exists =>
       LET content == files["README.md"].data
       IN  /\ \A section_marker \in Markers, new_content \in Replacements :
                LET once == update_readme_section(content, section_marker,
                                                  new_content, "yaml")
                IN  update_readme_section(once, section_marker, new_content, "yaml") = once
           /\ \A i \in 1..Len(Commands), help_text \in Replacements :
                LET once == update_readme_help_section(content, Commands[i], help_text)
                IN  update_readme_help_section(once, Commands[i], help_text) = once

SecondRunWritesNothing ==
    (/\ Len(executed) >= 2
     /\ executed[Len(executed)] = "main"
     /\ executed[Len(executed) - 1] = "main"
     /\ ~args.install)
    => wrote = {}

OutsideMarkersKept ==
    (files["README.md"].exists /\ files'["README.md"] # files["README.md"]) =>
        LET outside == OutsideMarkers(files["README.md"].data)
            after == files'["README.md"].data
        IN  /\ SubSeq(after, 1, Len(outside[1])) = outside[1]
            /\ EndsWith(after, outside[2])

\* C25: update_readme_section and update_readme_help_section applied twice
\* give the same document as applied once, for every README content, marker
\* and replacement text; a second run of the sync over unchanged inputs writes
\* no file; text outside the BEGIN / END comments is never changed.
C25_SyncIdempotent ==
    /\ [](SyncIdempotent /\ SecondRunWritesNothing)
    /\ [][OutsideMarkersKept]_vars

\* C26: immediately after update_changelog has promoted the pending section,
\* validate_changelog on the resulting document, whose fresh pending section
\* holds only the subsection template, returns false.
C26_FreshPendingSectionInvalid ==
    (/\ pc = "updated"
     /\ orig["CHANGELOG.md"].exists
     /\ PendingHeading(orig["CHANGELOG.md"].data) # 0)
    => ~validate_changelog(files["CHANGELOG.md"])

\* C27: gh release create is executed only in runs where git push and git
\* push --tags have been executed before it and have succeeded.
C27_PublishOnlyAfterPush ==
    \A i \in 1..Len(executed) :
        executed[i].cmd = "gh_release_create" =>
            /\ \E j \in 1..(i - 1) : executed[j].cmd = "git_push" /\ executed[j].ok
            /\ \E j \in 1..(i - 1) : executed[j].cmd = "git_push_tags" /\ executed[j].ok

\* C28: restore_backups only writes content that create_backups captured in
\* the current run: a declared file that it writes existed when the backup
\* was taken and gets the content it had then, also when .release-backup was
\* left by an earlier run.
C28_RestoreOnlyCurrentSnapshots ==
    [][\A f \in FileNames :
          (f \in restored' /\ f \notin restored) =>
              /\ orig[f].exists
              /\ files'[f] = orig[f]]_vars

\* C29: the success summary reports an optional step (deploy, push, GitHub
\* release) as completed only if its command ran and succeeded in this run,
\* and as skipped when it was disabled, declined, or skipped because gh could
\* not be used.
C29_SummaryFaithful ==
    "success" \in reported =>
       /\ "deployed" \in reported <=> Succeeded("deploy_release")
       /\ "deployment_skipped" \in reported <=> ~Succeeded("deploy_release")
       /\ "pushed" \in reported <=> (Succeeded("git_push") /\ Succeeded("git_push_tags"))
       /\ "push_skipped" \in reported <=> ~Succeeded("git_push")
       /\ "github_release_created" \in reported <=> Succeeded("gh_release_create")
       /\ "github_release_skipped" \in reported <=> ~Succeeded("gh_release_create")

V100 == <<<<1>>, <<0>>, <<0>>>>
V032 == <<<<0>>, <<3>>, <<2>>>>

\* C30: the bump is a function of the three flags and one bump is applied to
\* the version read from pom.xml: with 0.3.1 there, --major gives 1.0.0
\* whenever it is set, otherwise --patch gives 0.3.2 whenever it is set,
\* otherwise the minor bump gives 0.4.0, whatever --minor is.
C30_BumpKindByFlags ==
    (pc # "get_current_version" /\ current_version = V031) =>
        new_version = IF args.major THEN V100
                      ELSE IF args.patch THEN V032
                      ELSE V040

\* --minor together with --patch: the patch bump is applied.
C30_Witness ==
    /\ args.minor /\ args.patch /\ ~args.major
    /\ pc = "validate_changelog"
    /\ current_version = V031
    /\ new_version = V032

====
